---- MODULE Spec2Model ----
(***************************************************************************)
(* A model of the railroad diagram library (src/src/lib.rs) and of its     *)
(* pseudo-SVG builder (src/src/notactuallysvg.rs).                         *)
(*                                                                         *)
(* A node is a record                                                      *)
(*   [kind, children, entry_height, height, width, label, attributes,      *)
(*    uri, target, extra_elements]                                         *)
(* kind       the Rust type of the node ("Sequence", "Debug", ...)         *)
(* children   the owned child nodes: Vec<N> for the collections,           *)
(*            <<inner>> for Optional / Link / Diagram,                     *)
(*            <<inner, repeat>> for Repeat, <<inner, label>> for LabeledBox*)
(* entry_height, height, width   what the node's methods of these names    *)
(*            return.  The methods compute them from the node's own fields *)
(*            (the three stored fields of Debug) and from its children's   *)
(*            values, none of which changes while the node owns them: the  *)
(*            model computes them when the node is constructed or pushed   *)
(*            to (measured), and reads them from then on                   *)
(* label      the String of Terminal / NonTerminal / Comment, a sequence   *)
(*            of one-character strings                                     *)
(* attributes the HashMap<String, String> of the node, a function          *)
(* uri, target   the fields of Link                                        *)
(* extra_elements   the Vec<Element> of Diagram                            *)
(***************************************************************************)
EXTENDS Integers, Sequences, FiniteSets, TLC

(***************************************************************************)
(* Bounds of the model.                                                    *)
(***************************************************************************)
\* the largest number of nodes that exist at one time (workbench + tree)
MaxNodes == 3
\* the largest number of children handed to one collection built flat
MaxChildren == 3
\* the largest absolute value of an argument of Debug::new tried in full
MaxSide == 1

(***************************************************************************)
(* Program constants.                                                      *)
(***************************************************************************)
ARC_RADIUS == 12
Sequence_spacing == 10
Choice_spacing == 10
Repeat_spacing == 10
Stack_spacing == ARC_RADIUS
Stack_left_padding_field == 10
Stack_right_padding_field == 10
VerticalGrid_spacing == ARC_RADIUS
HorizontalGrid_spacing == ARC_RADIUS
LabeledBox_spacing_field == 8
LabeledBox_padding_field == 8
Diagram_left_padding == 10
Diagram_right_padding == 10
Diagram_top_padding == 10
Diagram_bottom_padding == 10

(***************************************************************************)
(* Integer helpers: std::cmp and Rust's truncating division / remainder.   *)
(***************************************************************************)
cmp_max(a, b) == IF b >= a THEN b ELSE a
cmp_min(a, b) == IF a <= b THEN a ELSE b

\* i64 `/` truncates towards zero
RustDiv(a, b) ==
    IF (a >= 0 /\ b > 0) \/ (a <= 0 /\ b < 0)
    THEN (IF a >= 0 THEN a ELSE -a) \div (IF b >= 0 THEN b ELSE -b)
    ELSE -((IF a >= 0 THEN a ELSE -a) \div (IF b >= 0 THEN b ELSE -b))

\* i64 `%` has the sign of the dividend
RustRem(a, b) == a - b * RustDiv(a, b)

\* Iterator::max().unwrap_or_default() over a sequence of i64
RECURSIVE iter_max(_, _)
iter_max(s, acc) ==
    IF s = <<>> THEN acc ELSE iter_max(Tail(s), cmp_max(acc, Head(s)))

iter_max_or_default(s) == IF s = <<>> THEN 0 ELSE iter_max(Tail(s), Head(s))

\* Iterator::sum() over a sequence of i64
RECURSIVE iter_sum(_)
iter_sum(s) == IF s = <<>> THEN 0 ELSE Head(s) + iter_sum(Tail(s))

(***************************************************************************)
(* Text measurement.  UnicodeWidthStr::width counts one column for every   *)
(* printable ASCII character, the only characters the model's labels hold. *)
(***************************************************************************)
unicode_width(s) == Len(s)

text_width(s) == unicode_width(s) + (unicode_width(s) \div 20)

(***************************************************************************)
(* The Node trait: entry_height, height, width, height_below_entry, on a   *)
(* measured node.                                                          *)
(***************************************************************************)
entry_height(n) == n.entry_height
height(n) == n.height
width(n) == n.width

height_below_entry(n) == height(n) - entry_height(n)

\* impl NodeCollection
max_height_below_entry(ns) ==
    iter_max_or_default([i \in DOMAIN ns |-> height_below_entry(ns[i])])
max_entry_height(ns) ==
    iter_max_or_default([i \in DOMAIN ns |-> entry_height(ns[i])])
max_height(ns) == iter_max_or_default([i \in DOMAIN ns |-> height(ns[i])])
max_width(ns) == iter_max_or_default([i \in DOMAIN ns |-> width(ns[i])])
total_width(ns) == iter_sum([i \in DOMAIN ns |-> width(ns[i])])
total_height(ns) == iter_sum([i \in DOMAIN ns |-> height(ns[i])])

\* Vec::get(0).map(f).unwrap_or_default() and Vec::last().map(f).unwrap_or_default()
first_or_default(s) == IF s = <<>> THEN 0 ELSE s[1]
last_or_default(s) == IF s = <<>> THEN 0 ELSE s[Len(s)]

\* ---- Link
Link_entry_height(n) == entry_height(n.children[1])
Link_height(n) == height(n.children[1])
Link_width(n) == width(n.children[1])

\* ---- VerticalGrid
VerticalGrid_entry_height(n) == 0
VerticalGrid_height(n) ==
    total_height(n.children)
        + ((cmp_max(1, Len(n.children)) - 1) * VerticalGrid_spacing)
VerticalGrid_width(n) == max_width(n.children)

\* ---- HorizontalGrid
HorizontalGrid_entry_height(n) == 0
HorizontalGrid_height(n) == max_height(n.children)
HorizontalGrid_width(n) ==
    total_width(n.children)
        + ((cmp_max(1, Len(n.children)) - 1) * HorizontalGrid_spacing)

\* ---- Sequence
Sequence_entry_height(n) == max_entry_height(n.children)
Sequence_height(n) ==
    max_entry_height(n.children) + max_height_below_entry(n.children)
\* a faulty variant: the spacing counted once per child
Sequence_width_per_child(n) ==
    total_width(n.children) + Len(n.children) * Sequence_spacing

Sequence_width(n) ==
    LET l == Len(n.children)
    IN  IF l > 1
        THEN total_width(n.children) + (l - 1) * Sequence_spacing
        ELSE total_width(n.children)

\* ---- Terminal, NonTerminal, Comment
Terminal_entry_height(n) == 11
Terminal_height(n) == Terminal_entry_height(n) * 2
Terminal_width(n) == text_width(n.label) * 8 + 20
NonTerminal_entry_height(n) == 11
NonTerminal_height(n) == NonTerminal_entry_height(n) * 2
NonTerminal_width(n) == text_width(n.label) * 8 + 20
Comment_entry_height(n) == 10
Comment_height(n) == 20
Comment_width(n) == text_width(n.label) * 7 + 10

\* ---- Optional
\* a faulty variant: the child's entry height is not held above the arc
Optional_entry_height_unclamped(n) ==
    ARC_RADIUS + entry_height(n.children[1])

Optional_entry_height(n) ==
    ARC_RADIUS + cmp_max(ARC_RADIUS, entry_height(n.children[1]))
Optional_height(n) ==
    Optional_entry_height(n) + height_below_entry(n.children[1])
Optional_width(n) == ARC_RADIUS * 2 + width(n.children[1]) + ARC_RADIUS * 2

\* ---- Stack
\* a faulty variant: the radius between two children is forgotten
Stack_padded_height_tight(child, next_child) ==
    entry_height(child)
        + cmp_max(height_below_entry(child) + Stack_spacing, ARC_RADIUS * 2)
        + cmp_max(0, ARC_RADIUS - entry_height(next_child))

Stack_padded_height(child, next_child) ==
    entry_height(child)
        + cmp_max(height_below_entry(child) + Stack_spacing, ARC_RADIUS * 2)
        + ARC_RADIUS
        + cmp_max(0, ARC_RADIUS - entry_height(next_child))
\* a faulty variant: the padding applied to every stack, whatever its length
Stack_left_padding_always(n) == cmp_max(Stack_left_padding_field, ARC_RADIUS)

Stack_left_padding(n) ==
    IF Len(n.children) > 1
    THEN cmp_max(Stack_left_padding_field, ARC_RADIUS)
    ELSE 0
Stack_right_padding(n) ==
    IF Len(n.children) > 1
    THEN cmp_max(Stack_right_padding_field, ARC_RADIUS * 2)
    ELSE 0
Stack_entry_height(n) ==
    first_or_default([i \in DOMAIN n.children |-> entry_height(n.children[i])])
Stack_height(n) ==
    iter_sum([i \in 1..(Len(n.children) - 1) |->
                 Stack_padded_height(n.children[i], n.children[i + 1])])
        + last_or_default([i \in DOMAIN n.children |-> height(n.children[i])])
\* a faulty variant: the extra radius for the return connector is forgotten
Stack_width_no_extra(n) ==
    Stack_left_padding(n) + max_width(n.children) + Stack_right_padding(n)

\* a faulty variant: no extra radius when a child is as wide as the last
Stack_width_strict(n) ==
    LET l == Stack_left_padding(n) + max_width(n.children) + Stack_right_padding(n)
        last_width ==
            last_or_default([i \in DOMAIN n.children |-> width(n.children[i])])
    IN  IF \E i \in 1..(Len(n.children) - 1) : width(n.children[i]) > last_width
        THEN l + ARC_RADIUS
        ELSE l

Stack_width(n) ==
    LET l == Stack_left_padding(n) + max_width(n.children) + Stack_right_padding(n)
        last_width ==
            last_or_default([i \in DOMAIN n.children |-> width(n.children[i])])
    IN  IF \E i \in 1..(Len(n.children) - 1) : width(n.children[i]) >= last_width
        THEN l + ARC_RADIUS
        ELSE l

\* ---- Choice
\* a faulty variant: the padding applied to every choice, whatever its length
Choice_inner_padding_always(n) == ARC_RADIUS * 2

Choice_inner_padding(n) == IF Len(n.children) > 1 THEN ARC_RADIUS * 2 ELSE 0
\* a faulty variant: a low entry is not held at the arc radius
Choice_padded_height_unclamped(child) ==
    entry_height(child) + height_below_entry(child) + Choice_spacing

Choice_padded_height(child) ==
    cmp_max(ARC_RADIUS, entry_height(child)) + height_below_entry(child)
        + Choice_spacing
Choice_entry_height(n) ==
    first_or_default([i \in DOMAIN n.children |-> entry_height(n.children[i])])
Choice_height(n) ==
    IF n.children = <<>>
    THEN 0
    ELSE IF Len(n.children) = 1
    THEN total_height(n.children)
    ELSE Choice_entry_height(n)
            + cmp_max(ARC_RADIUS,
                      Choice_spacing + height_below_entry(n.children[1]))
            + iter_sum([i \in 1..(Len(n.children) - 1) |->
                           Choice_padded_height(n.children[i + 1])])
            - Choice_spacing
Choice_width(n) ==
    IF Len(n.children) > 1
    THEN Choice_inner_padding(n) + max_width(n.children) + Choice_inner_padding(n)
    ELSE max_width(n.children)

\* ---- Repeat: children = <<inner, repeat>>
\* a faulty variant: the two arcs' height is not kept as the minimum
Repeat_height_between_entries_unclamped(n) ==
    height_below_entry(n.children[1]) + Repeat_spacing
        + entry_height(n.children[2])

Repeat_height_between_entries(n) ==
    cmp_max(ARC_RADIUS * 2,
            height_below_entry(n.children[1]) + Repeat_spacing
                + entry_height(n.children[2]))
Repeat_entry_height(n) == entry_height(n.children[1])
Repeat_height(n) ==
    entry_height(n.children[1]) + Repeat_height_between_entries(n)
        + height_below_entry(n.children[2])
\* a faulty variant: the width leaves no room for a wider repeat child
Repeat_width_of_inner(n) == ARC_RADIUS + width(n.children[1]) + ARC_RADIUS

Repeat_width(n) ==
    ARC_RADIUS + cmp_max(width(n.children[2]), width(n.children[1])) + ARC_RADIUS

\* ---- Debug
Debug_entry_height(n) == n.entry_height
Debug_height(n) == n.height
Debug_width(n) == n.width

\* ---- LabeledBox: children = <<inner, label>>
LabeledBox_spacing(n) ==
    IF height(n.children[2]) > 0 THEN LabeledBox_spacing_field ELSE 0
LabeledBox_padding(n) ==
    IF height(n.children[2]) + height(n.children[1])
           + width(n.children[2]) + width(n.children[1]) > 0
    THEN LabeledBox_padding_field
    ELSE 0
LabeledBox_entry_height(n) ==
    LabeledBox_padding(n) + height(n.children[2]) + LabeledBox_spacing(n)
        + entry_height(n.children[1])
LabeledBox_height(n) ==
    LabeledBox_padding(n) + height(n.children[2]) + LabeledBox_spacing(n)
        + height(n.children[1]) + LabeledBox_padding(n)
LabeledBox_width(n) ==
    LabeledBox_padding(n)
        + cmp_max(width(n.children[1]), width(n.children[2]))
        + LabeledBox_padding(n)

\* ---- Diagram: children = <<root>>
Diagram_entry_height(n) == 0
Diagram_height(n) ==
    Diagram_top_padding + height(n.children[1]) + Diagram_bottom_padding
Diagram_width(n) ==
    Diagram_left_padding + width(n.children[1]) + Diagram_right_padding

\* ---- the implementation of each method for the node's type
Node_entry_height(n) ==
    CASE n.kind = "Link" -> Link_entry_height(n)
      [] n.kind = "VerticalGrid" -> VerticalGrid_entry_height(n)
      [] n.kind = "HorizontalGrid" -> HorizontalGrid_entry_height(n)
      [] n.kind = "Sequence" -> Sequence_entry_height(n)
      [] n.kind \in {"End", "Start"} -> 10
      [] n.kind \in {"SimpleStart", "SimpleEnd"} -> 5
      [] n.kind = "Terminal" -> Terminal_entry_height(n)
      [] n.kind = "NonTerminal" -> NonTerminal_entry_height(n)
      [] n.kind = "Optional" -> Optional_entry_height(n)
      [] n.kind = "Stack" -> Stack_entry_height(n)
      [] n.kind = "Choice" -> Choice_entry_height(n)
      [] n.kind = "Repeat" -> Repeat_entry_height(n)
      [] n.kind = "Debug" -> Debug_entry_height(n)
      [] n.kind = "Empty" -> 0
      [] n.kind = "LabeledBox" -> LabeledBox_entry_height(n)
      [] n.kind = "Comment" -> Comment_entry_height(n)
      [] n.kind = "Diagram" -> Diagram_entry_height(n)

Node_height(n) ==
    CASE n.kind = "Link" -> Link_height(n)
      [] n.kind = "VerticalGrid" -> VerticalGrid_height(n)
      [] n.kind = "HorizontalGrid" -> HorizontalGrid_height(n)
      [] n.kind = "Sequence" -> Sequence_height(n)
      [] n.kind \in {"End", "Start"} -> 20
      [] n.kind \in {"SimpleStart", "SimpleEnd"} -> 10
      [] n.kind = "Terminal" -> Terminal_height(n)
      [] n.kind = "NonTerminal" -> NonTerminal_height(n)
      [] n.kind = "Optional" -> Optional_height(n)
      [] n.kind = "Stack" -> Stack_height(n)
      [] n.kind = "Choice" -> Choice_height(n)
      [] n.kind = "Repeat" -> Repeat_height(n)
      [] n.kind = "Debug" -> Debug_height(n)
      [] n.kind = "Empty" -> 0
      [] n.kind = "LabeledBox" -> LabeledBox_height(n)
      [] n.kind = "Comment" -> Comment_height(n)
      [] n.kind = "Diagram" -> Diagram_height(n)

Node_width(n) ==
    CASE n.kind = "Link" -> Link_width(n)
      [] n.kind = "VerticalGrid" -> VerticalGrid_width(n)
      [] n.kind = "HorizontalGrid" -> HorizontalGrid_width(n)
      [] n.kind = "Sequence" -> Sequence_width(n)
      [] n.kind \in {"End", "Start"} -> 20
      [] n.kind \in {"SimpleStart", "SimpleEnd"} -> 15
      [] n.kind = "Terminal" -> Terminal_width(n)
      [] n.kind = "NonTerminal" -> NonTerminal_width(n)
      [] n.kind = "Optional" -> Optional_width(n)
      [] n.kind = "Stack" -> Stack_width(n)
      [] n.kind = "Choice" -> Choice_width(n)
      [] n.kind = "Repeat" -> Repeat_width(n)
      [] n.kind = "Debug" -> Debug_width(n)
      [] n.kind = "Empty" -> 0
      [] n.kind = "LabeledBox" -> LabeledBox_width(n)
      [] n.kind = "Comment" -> Comment_width(n)
      [] n.kind = "Diagram" -> Diagram_width(n)

\* the node with the values of its three methods computed
measured(n) ==
    LET eh == Node_entry_height(n)
        h == Node_height(n)
        w == Node_width(n)
    IN  [n EXCEPT !.entry_height = eh, !.height = h, !.width = w]

(***************************************************************************)
(* notactuallysvg: HDir, PathData and Element.                             *)
(*                                                                         *)
(* A PathData is [text, h_dir]; text is the sequence of the commands       *)
(* written so far, each command a tuple: <<"M", x, y>>, <<"m", dx, dy>>,   *)
(* <<"l", dx, dy>>, <<"h", d>>, <<"v", d>>,                                *)
(* <<"a", rx, ry, 0, 0, sweep, dx, dy>>.                                   *)
(* An Element is [name, attributes, text, children, siblings]; text is     *)
(* <<>> for None and <<s>> for Some(s).  An integer attribute value stands *)
(* for its decimal rendering.                                              *)
(***************************************************************************)
HDir_invert(d) == IF d = "LTR" THEN "RTL" ELSE "LTR"

PathData_new(h_dir) == [text |-> <<>>, h_dir |-> h_dir]
move_to(p, x, y) == [p EXCEPT !.text = Append(@, <<"M", x, y>>)]
move_rel(p, x, y) == [p EXCEPT !.text = Append(@, <<"m", x, y>>)]
line_rel(p, x, y) == [p EXCEPT !.text = Append(@, <<"l", x, y>>)]

\* a faulty variant: the chevron is not mirrored for the direction flag
horizontal_unmirrored(p, h) ==
    LET q == [p EXCEPT !.text = Append(@, <<"h", h>>)]
    IN  CASE h > 50 ->
               move_rel(line_rel(move_rel(line_rel(
                   move_rel(q, -(RustDiv(h, 2) - 3), 0),
                   -5, -5), 0, 10), 5, -5), RustDiv(h, 2) - 3, 0)
          [] ~(h > 50) /\ h < -50 ->
               move_rel(line_rel(move_rel(line_rel(
                   move_rel(q, -(RustDiv(h, 2) - 3), 0),
                   5, -5), 0, 10), -5, -5), RustDiv(h, 2) - 3, 0)
          [] ~(h > 50) /\ ~(h < -50) -> q

\* a faulty variant: written right to left, the pen stays at the chevron
horizontal_rtl_unreturned(p, h) ==
    LET q == [p EXCEPT !.text = Append(@, <<"h", h>>)]
    IN  IF (h > 50 \/ h < -50) /\ q.h_dir = "RTL"
        THEN line_rel(move_rel(line_rel(
                 move_rel(q, -(RustDiv(h, 2) + 3), 0), 5, -5), 0, 10), -5, -5)
        ELSE q

horizontal(p, h) ==
    LET q == [p EXCEPT !.text = Append(@, <<"h", h>>)]
    IN  CASE h > 50 /\ q.h_dir = "LTR" ->
               move_rel(line_rel(move_rel(line_rel(
                   move_rel(q, -(RustDiv(h, 2) - 3), 0),
                   -5, -5), 0, 10), 5, -5), RustDiv(h, 2) - 3, 0)
          [] h > 50 /\ q.h_dir = "RTL" ->
               move_rel(line_rel(move_rel(line_rel(
                   move_rel(q, -(RustDiv(h, 2) + 3), 0),
                   5, -5), 0, 10), -5, -5), RustDiv(h, 2) + 3, 0)
          [] ~(h > 50) /\ h < -50 /\ q.h_dir = "LTR" ->
               move_rel(line_rel(move_rel(line_rel(
                   move_rel(q, -(RustDiv(h, 2) - 3), 0),
                   5, -5), 0, 10), -5, -5), RustDiv(h, 2) - 3, 0)
          [] ~(h > 50) /\ h < -50 /\ q.h_dir = "RTL" ->
               move_rel(line_rel(move_rel(line_rel(
                   move_rel(q, -(RustDiv(h, 2) + 3), 0),
                   -5, -5), 0, 10), 5, -5), RustDiv(h, 2) + 3, 0)
          [] ~(h > 50) /\ ~(h < -50) -> q

\* a faulty variant: a vertical run never gets a chevron
vertical_no_arrow(p, h) == [p EXCEPT !.text = Append(@, <<"v", h>>)]

vertical(p, h) ==
    LET q == [p EXCEPT !.text = Append(@, <<"v", h>>)]
    IN  IF h > 50
        THEN move_rel(line_rel(move_rel(line_rel(
                 move_rel(q, 0, -(RustDiv(h, 2) - 3)),
                 -5, -5), 10, 0), -5, 5), 0, RustDiv(h, 2) - 3)
        ELSE IF h < -50
        THEN move_rel(line_rel(move_rel(line_rel(
                 move_rel(q, 0, -(RustDiv(h, 2) - 3)),
                 -5, 5), 10, 0), -5, -5), 0, RustDiv(h, 2) - 3)
        ELSE q

\* the (sweep, x, y) of each named quadrant transition
Arc_params(radius, kind) ==
    CASE kind = "EastToNorth" -> <<1, -radius, -radius>>
      [] kind = "EastToSouth" -> <<0, -radius, radius>>
      [] kind = "NorthToEast" -> <<0, radius, radius>>
      [] kind = "NorthToWest" -> <<1, -radius, radius>>
      [] kind = "SouthToEast" -> <<1, radius, -radius>>
      [] kind = "SouthToWest" -> <<0, -radius, -radius>>
      [] kind = "WestToNorth" -> <<0, radius, -radius>>
      [] kind = "WestToSouth" -> <<1, radius, radius>>

arc(p, radius, kind) ==
    LET t == Arc_params(radius, kind)
    IN  [p EXCEPT !.text =
            Append(@, <<"a", radius, radius, 0, 0, t[1], t[2], t[3]>>)]

Element_new(name) ==
    [name |-> name, attributes |-> <<>>, text |-> <<>>,
     children |-> <<>>, siblings |-> <<>>]

\* HashMap::insert: a later value replaces an earlier one under the same key
map_insert(m, key, value) ==
    [k \in (DOMAIN m) \cup {key} |-> IF k = key THEN value ELSE m[k]]

\* HashMap::extend
map_extend(m, other) ==
    [k \in (DOMAIN m) \cup (DOMAIN other) |->
        IF k \in DOMAIN other THEN other[k] ELSE m[k]]

set(e, key, value) == [e EXCEPT !.attributes = map_insert(@, key, value)]
set_all(e, attrs) == [e EXCEPT !.attributes = map_extend(@, attrs)]
add(e, child) == [e EXCEPT !.children = Append(@, child)]
add_all(e, cs) == [e EXCEPT !.children = @ \o cs]
append(e, sibling) == [e EXCEPT !.siblings = Append(@, sibling)]
into_path(p) == set(Element_new("path"), "d", p.text)

(***************************************************************************)
(* Display for Element.  The output is the sequence of the pieces written: *)
(* <<"<", name>>, one <<" ", key, value>> for every attribute, <<"/>">> or *)
(* <<">">> (each ends its line), <<"text", t>> and <<"</", name>>.  The    *)
(* attributes are taken from the HashMap in the order its hasher gives,    *)
(* which differs from run to run: order, a sequence of keys, stands for    *)
(* it.  String's Ord is the byte order; SortedKeys lists in that order the *)
(* keys the model writes.                                                  *)
(***************************************************************************)
SortedKeys ==
    <<"class", "d", "height", "rx", "ry", "target", "viewBox", "width", "x",
      "xlink:href", "xmlns", "xmlns:xlink", "y">>

\* a < b for two keys, as String's Ord has it
key_lt(a, b) ==
    \E i, j \in DOMAIN SortedKeys :
        SortedKeys[i] = a /\ SortedKeys[j] = b /\ i < j

\* HashMap::iter().collect(): the keys of m as the hasher orders them
iter_collect(m, order) == SelectSeq(order, LAMBDA k : k \in DOMAIN m)

\* a faulty variant: the keys are left in the order of the hasher
sort_by_key_unsorted(ks) == ks

RECURSIVE sort_by_key(_)
\* Vec::sort_by_key, a stable sort: each key goes behind the keys not after it
sort_by_key(ks) ==
    IF ks = <<>> THEN <<>>
    ELSE LET k == ks[Len(ks)]
             front == sort_by_key(SubSeq(ks, 1, Len(ks) - 1))
         IN  SelectSeq(front, LAMBDA a : ~key_lt(k, a)) \o <<k>>
                 \o SelectSeq(front, LAMBDA a : key_lt(k, a))

\* a faulty variant: a tag with text and no children is closed at once
no_content_but_text(e) == e.children = <<>>

\* self.text.is_none() && self.children.is_empty()
no_content(e) == e.text = <<>> /\ e.children = <<>>

RECURSIVE Element_fmt(_, _)
RECURSIVE fmt_each(_, _)
Element_fmt(e, order) ==
    LET attrs == sort_by_key(iter_collect(e.attributes, order))
    IN  <<(<<"<", e.name>>)>>
        \o [i \in DOMAIN attrs |-> <<" ", attrs[i], e.attributes[attrs[i]]>>]
        \o (IF no_content(e) THEN <<(<<"/>">>)>> ELSE <<(<<">">>)>>)
        \o (IF e.text # <<>> THEN <<(<<"text", e.text[1]>>)>> ELSE <<>>)
        \o fmt_each(e.children, order)
        \o (IF e.text # <<>> \/ e.children # <<>>
            THEN <<(<<"</", e.name>>)>> ELSE <<>>)
        \o fmt_each(e.siblings, order)

\* write!(f, "{child}") for every element of es, in order
fmt_each(es, order) ==
    IF es = <<>> THEN <<>>
    ELSE Element_fmt(Head(es), order) \o fmt_each(Tail(es), order)

(***************************************************************************)
(* Escaping.  A string is a sequence of characters; a character is itself  *)
(* as a one-character string when it is ASCII, and its name, as "U+00E5",  *)
(* beyond.  Rust indexes and slices a str by bytes, so the model keeps the *)
(* byte offset of every character.  A Cow is [cow, str], cow "Borrowed" or *)
(* "Owned"; a slice off a character boundary panics, cow "panicked".       *)
(***************************************************************************)
\* char as u32, for the characters the model's strings hold
code_point(c) ==
    CASE c = " " -> 32
      [] c = "\"" -> 34
      [] c = "&" -> 38
      [] c = "'" -> 39
      [] c = "7" -> 55
      [] c = "<" -> 60
      [] c = ">" -> 62
      [] c = "F" -> 70
      [] c = "a" -> 97
      [] c = "b" -> 98
      [] c = "o" -> 111
      [] c = "r" -> 114
      [] c = "U+00E5" -> 229
      [] c = "U+0100" -> 256

\* char::len_utf8
len_utf8(c) ==
    IF code_point(c) < 128 THEN 1
    ELSE IF code_point(c) < 2048 THEN 2
    ELSE IF code_point(c) < 65536 THEN 3
    ELSE 4

\* str::char_indices: the byte offset of every character, and behind them
\* that of the end of the string
RECURSIVE char_indices(_)
char_indices(inp) ==
    IF inp = <<>> THEN <<0>>
    ELSE LET front == char_indices(SubSeq(inp, 1, Len(inp) - 1))
         IN  Append(front, front[Len(inp)] + len_utf8(inp[Len(inp)]))

\* &inp[from..to] does not panic: from and to are among the offsets offs
is_slice(offs, from, to) ==
    /\ from <= to
    /\ \A b \in {from, to} : \E k \in DOMAIN offs : offs[k] = b

\* &inp[from..to], offs being the offsets of inp
slice(inp, offs, from, to) ==
    SubSeq(inp, CHOOSE k \in DOMAIN offs : offs[k] = from,
                (CHOOSE k \in DOMAIN offs : offs[k] = to) - 1)

\* a faulty variant: the apostrophe is copied
minimal_entity_no_apostrophe(c) ==
    CASE c = "\"" -> <<"&", "q", "u", "o", "t", ";">>
      [] c = "&" -> <<"&", "a", "m", "p", ";">>
      [] c = "<" -> <<"&", "l", "t", ";">>
      [] c = ">" -> <<"&", "g", "t", ";">>
      [] OTHER -> <<c>>

\* the entity a character is replaced by, <<c>> when it is copied
minimal_entity(c) ==
    CASE c = "\"" -> <<"&", "q", "u", "o", "t", ";">>
      [] c = "&" -> <<"&", "a", "m", "p", ";">>
      [] c = "<" -> <<"&", "l", "t", ";">>
      [] c = ">" -> <<"&", "g", "t", ";">>
      [] c = "'" -> <<"&", "#", "x", "2", "7", ";">>
      [] OTHER -> <<c>>

RECURSIVE encode_minimal_loop(_, _, _)
\* buf and last_idx after the first k characters of inp, of offsets offs
encode_minimal_loop(inp, offs, k) ==
    IF k = 0 THEN [buf |-> <<>>, last_idx |-> 0, panicked |-> FALSE]
    ELSE LET s == encode_minimal_loop(inp, offs, k - 1)
             c == inp[k]
             idx == offs[k]
         IN  IF s.panicked \/ minimal_entity(c) = <<c>> THEN s
             ELSE IF ~is_slice(offs, s.last_idx, idx)
             THEN [s EXCEPT !.panicked = TRUE]
             ELSE [buf |-> s.buf \o slice(inp, offs, s.last_idx, idx)
                               \o minimal_entity(c),
                   last_idx |-> idx + 1,
                   panicked |-> FALSE]

encode_minimal(inp) ==
    LET offs == char_indices(inp)
        s == encode_minimal_loop(inp, offs, Len(inp))
        end == offs[Len(inp) + 1]
    IN  IF s.panicked THEN [cow |-> "panicked", str |-> <<>>]
        ELSE IF s.buf # <<>>
        THEN IF is_slice(offs, s.last_idx, end)
             THEN [cow |-> "Owned",
                   str |-> s.buf \o slice(inp, offs, s.last_idx, end)]
             ELSE [cow |-> "panicked", str |-> <<>>]
        ELSE [cow |-> "Borrowed", str |-> inp]

HexDigits ==
    <<"0", "1", "2", "3", "4", "5", "6", "7", "8", "9",
      "A", "B", "C", "D", "E", "F">>

\* ENTITIES[b]: <<>> for None, <<entity>> for Some(entity)
ENTITIES(b) ==
    IF b \in (48..57) \cup (65..90) \cup (97..122) THEN <<>>
    ELSE IF b = 34 THEN <<(<<"&", "q", "u", "o", "t", ";">>)>>
    ELSE IF b = 38 THEN <<(<<"&", "a", "m", "p", ";">>)>>
    ELSE IF b = 60 THEN <<(<<"&", "l", "t", ";">>)>>
    ELSE IF b = 62 THEN <<(<<"&", "g", "t", ";">>)>>
    ELSE <<(<<"&", "#", "x", HexDigits[(b \div 16) + 1],
              HexDigits[(b % 16) + 1], ";">>)>>

\* the entity encode_attribute has for a character: none when the
\* character is no u8, or the table has None for it
attribute_entity(c) ==
    IF code_point(c) <= 255 THEN ENTITIES(code_point(c)) ELSE <<>>

RECURSIVE encode_attribute_loop(_, _, _)
\* buf and last_idx after the first k characters of inp, of offsets offs
encode_attribute_loop(inp, offs, k) ==
    IF k = 0 THEN [buf |-> <<>>, last_idx |-> 0, panicked |-> FALSE]
    ELSE LET s == encode_attribute_loop(inp, offs, k - 1)
             c == inp[k]
             idx == offs[k]
         IN  IF s.panicked \/ attribute_entity(c) = <<>> THEN s
             ELSE IF ~is_slice(offs, s.last_idx, idx)
             THEN [s EXCEPT !.panicked = TRUE]
             ELSE [buf |-> s.buf \o slice(inp, offs, s.last_idx, idx)
                               \o attribute_entity(c)[1],
                   last_idx |-> idx + len_utf8(c),
                   panicked |-> FALSE]

encode_attribute(inp) ==
    LET offs == char_indices(inp)
        s == encode_attribute_loop(inp, offs, Len(inp))
        end == offs[Len(inp) + 1]
    IN  IF s.panicked THEN [cow |-> "panicked", str |-> <<>>]
        ELSE IF s.buf # <<>>
        THEN IF is_slice(offs, s.last_idx, end)
             THEN [cow |-> "Owned",
                   str |-> s.buf \o slice(inp, offs, s.last_idx, end)]
             ELSE [cow |-> "panicked", str |-> <<>>]
        ELSE [cow |-> "Borrowed", str |-> inp]

\* Cow::into_owned
into_owned(cow) == cow.str

text(e, t) == [e EXCEPT !.text = <<into_owned(encode_minimal(t))>>]
raw_text(e, t) == [e EXCEPT !.text = <<t>>]

\* Element::debug without the visual-debug feature (the default build)
debug(e, name, x, y, n) == e

\* the value a running variable has on entry to iteration i of a loop that
\* adds steps[j] at the end of iteration j
running(start, steps, i) == start + iter_sum(SubSeq(steps, 1, i - 1))

(***************************************************************************)
(* Node::draw for every node type.                                         *)
(***************************************************************************)
RECURSIVE draw(_, _, _, _)

Link_draw(n, x, y, h_dir) ==
    LET a0 == set(debug(Element_new("a"), "Link", x, y, n), "xlink:href", n.uri)
        a1 == CASE n.target = "Blank" -> set(a0, "target", "_blank")
                [] n.target = "Parent" -> set(a0, "target", "_parent")
                [] n.target = "Top" -> set(a0, "target", "_top")
                [] n.target = "None" -> a0
    IN  add(set_all(a1, n.attributes), draw(n.children[1], x, y, h_dir))

\* a faulty variant: the rows follow each other without the spacing
VerticalGrid_draw_unspaced(n, x, y, h_dir) ==
    LET g == set_all(Element_new("g"), n.attributes)
        steps == [i \in DOMAIN n.children |-> height(n.children[i])]
        drawn == [i \in DOMAIN n.children |->
                     draw(n.children[i], x, running(y, steps, i), h_dir)]
    IN  debug(add_all(g, drawn), "VerticalGrid", x, y, n)

VerticalGrid_draw(n, x, y, h_dir) ==
    LET g == set_all(Element_new("g"), n.attributes)
        steps == [i \in DOMAIN n.children |->
                     height(n.children[i]) + VerticalGrid_spacing]
        drawn == [i \in DOMAIN n.children |->
                     draw(n.children[i], x, running(y, steps, i), h_dir)]
    IN  debug(add_all(g, drawn), "VerticalGrid", x, y, n)

HorizontalGrid_draw(n, x, y, h_dir) ==
    LET g == set_all(Element_new("g"), n.attributes)
        steps == [i \in DOMAIN n.children |->
                     width(n.children[i]) + HorizontalGrid_spacing]
        drawn == [i \in DOMAIN n.children |->
                     draw(n.children[i], running(x, steps, i), y, h_dir)]
    IN  debug(add_all(g, drawn), "HorizontalGrid", x, y, n)

\* a faulty variant: the children are drawn with their tops on one line
Sequence_draw_top_aligned(n, x, y, h_dir) ==
    LET g == set(Element_new("g"), "class", "sequence")
        steps == [i \in DOMAIN n.children |->
                     width(n.children[i]) + Sequence_spacing]
        drawn == [i \in DOMAIN n.children |->
                     draw(n.children[i], x + running(0, steps, i), y, h_dir)]
        connectors == [i \in 1..(Len(n.children) - 1) |->
                     into_path(horizontal(
                         move_to(PathData_new(h_dir),
                                 running(x, steps, i) + width(n.children[i]),
                                 y + entry_height(n)),
                         Sequence_spacing))]
    IN  debug(add_all(add_all(g, drawn), connectors), "Sequence", x, y, n)

Sequence_draw(n, x, y, h_dir) ==
    LET g == set(Element_new("g"), "class", "sequence")
        steps == [i \in DOMAIN n.children |->
                     width(n.children[i]) + Sequence_spacing]
        drawn == [i \in DOMAIN n.children |->
                     draw(n.children[i],
                          x + running(0, steps, i),
                          y + entry_height(n) - entry_height(n.children[i]),
                          h_dir)]
        connectors == [i \in 1..(Len(n.children) - 1) |->
                     into_path(horizontal(
                         move_to(PathData_new(h_dir),
                                 running(x, steps, i) + width(n.children[i]),
                                 y + entry_height(n)),
                         Sequence_spacing))]
    IN  debug(add_all(add_all(g, drawn), connectors), "Sequence", x, y, n)

End_draw(n, x, y, h_dir) ==
    debug(into_path(
        vertical(move_rel(vertical(move_rel(horizontal(
            move_to(PathData_new(h_dir), x, y + 10),
            20), -10, -10), 20), 10, -20), 20)),
        "End", x, y, n)

SimpleStart_draw(n, x, y, h_dir) ==
    debug(into_path(
        horizontal(move_rel(
            arc(arc(arc(arc(
                move_to(PathData_new(h_dir), x, y + 5),
                5, "SouthToEast"), 5, "WestToSouth"), 5, "NorthToWest"),
                5, "EastToNorth"),
            10, 0), 5)),
        "SimpleStart", x, y, n)

SimpleEnd_draw(n, x, y, h_dir) ==
    debug(into_path(
        arc(arc(arc(arc(
            horizontal(move_to(PathData_new(h_dir), x, y + 5), 5),
            5, "SouthToEast"), 5, "WestToSouth"), 5, "NorthToWest"),
            5, "EastToNorth")),
        "SimpleEnd", x, y, n)

Start_draw(n, x, y, h_dir) ==
    debug(into_path(
        horizontal(move_rel(vertical(move_rel(vertical(
            move_to(PathData_new(h_dir), x, y),
            20), 10, -20), 20), -10, -10), 20)),
        "Start", x, y, n)

Terminal_draw(n, x, y, h_dir) ==
    LET r == set(set(set(set(set(set(Element_new("rect"),
                 "x", x), "y", y), "height", height(n)), "width", width(n)),
                 "rx", 10), "ry", 10)
        t == text(set(set(Element_new("text"),
                 "x", x + RustDiv(width(n), 2)),
                 "y", y + entry_height(n) + 5), n.label)
    IN  add(add(set_all(debug(Element_new("g"), "terminal", x, y, n),
                        n.attributes), r), t)

NonTerminal_draw(n, x, y, h_dir) ==
    LET r == set(set(set(set(Element_new("rect"),
                 "x", x), "y", y), "height", height(n)), "width", width(n))
        t == text(set(set(Element_new("text"),
                 "x", x + RustDiv(width(n), 2)),
                 "y", y + entry_height(n) + 5), n.label)
    IN  add(add(set_all(debug(Element_new("g"), "NonTerminal", x, y, n),
                        n.attributes), r), t)

\* a faulty variant: the bypass does not rise above a deep entry line
Optional_draw_low_bypass(n, x, y, h_dir) ==
    LET inner == n.children[1]
        i == draw(inner, x + ARC_RADIUS * 2,
                  y + entry_height(n) - entry_height(inner), h_dir)
        p1 == move_rel(horizontal(
                  move_to(PathData_new(h_dir), x, y + entry_height(n)),
                  ARC_RADIUS * 2), -ARC_RADIUS * 2, 0)
        p2 == vertical(arc(p1, ARC_RADIUS, "WestToNorth"), 0)
        p3 == horizontal(arc(p2, ARC_RADIUS, "SouthToEast"), width(inner))
        p4 == vertical(arc(p3, ARC_RADIUS, "WestToSouth"), 0)
        v == into_path(horizontal(arc(p4, ARC_RADIUS, "NorthToEast"),
                                  -ARC_RADIUS * 2))
    IN  add(add(set_all(debug(Element_new("g"), "Optional", x, y, n),
                        n.attributes), v), i)

Optional_draw(n, x, y, h_dir) ==
    LET inner == n.children[1]
        i == draw(inner, x + ARC_RADIUS * 2,
                  y + entry_height(n) - entry_height(inner), h_dir)
        p1 == move_rel(horizontal(
                  move_to(PathData_new(h_dir), x, y + entry_height(n)),
                  ARC_RADIUS * 2), -ARC_RADIUS * 2, 0)
        p2 == vertical(arc(p1, ARC_RADIUS, "WestToNorth"),
                       cmp_min(0, -entry_height(inner) + ARC_RADIUS))
        p3 == horizontal(arc(p2, ARC_RADIUS, "SouthToEast"), width(inner))
        p4 == vertical(arc(p3, ARC_RADIUS, "WestToSouth"),
                       cmp_max(0, entry_height(inner) - ARC_RADIUS))
        v == into_path(horizontal(arc(p4, ARC_RADIUS, "NorthToEast"),
                                  -ARC_RADIUS * 2))
    IN  add(add(set_all(debug(Element_new("g"), "Optional", x, y, n),
                        n.attributes), v), i)

\* a faulty variant: the connector does not descend to a deep entry line
Stack_connector_shallow(n, x, running_y, i, h_dir) ==
    LET child == n.children[i]
        p1 == arc(move_to(PathData_new(h_dir),
                          x + Stack_left_padding(n) + width(child),
                          running_y + entry_height(child)),
                  ARC_RADIUS, "WestToSouth")
        p2 == vertical(p1, cmp_max(0, height_below_entry(child)
                                          + Stack_spacing - ARC_RADIUS * 2))
        p3 == horizontal(arc(p2, ARC_RADIUS, "NorthToWest"), -width(child))
        p5 == vertical(arc(p3, ARC_RADIUS, "EastToSouth"), cmp_max(0,
                  RustDiv(Stack_spacing - ARC_RADIUS * 2, 2)
                      + RustRem(Stack_spacing - ARC_RADIUS * 2, 2)))
    IN  into_path(horizontal(arc(p5, ARC_RADIUS, "NorthToEast"),
                             Stack_left_padding(n) - ARC_RADIUS))

\* the S-shaped connector from child i down to child i + 1
Stack_connector(n, x, running_y, i, h_dir) ==
    LET child == n.children[i]
        next_child == n.children[i + 1]
        p1 == arc(move_to(PathData_new(h_dir),
                          x + Stack_left_padding(n) + width(child),
                          running_y + entry_height(child)),
                  ARC_RADIUS, "WestToSouth")
        p2 == vertical(p1, cmp_max(0, height_below_entry(child)
                                          + Stack_spacing - ARC_RADIUS * 2))
        p3 == horizontal(arc(p2, ARC_RADIUS, "NorthToWest"), -width(child))
        p4 == vertical(arc(p3, ARC_RADIUS, "EastToSouth"),
                       cmp_max(0, entry_height(next_child) - ARC_RADIUS))
        p5 == vertical(p4, cmp_max(0,
                  RustDiv(Stack_spacing - ARC_RADIUS * 2, 2)
                      + RustRem(Stack_spacing - ARC_RADIUS * 2, 2)))
    IN  into_path(horizontal(arc(p5, ARC_RADIUS, "NorthToEast"),
                             Stack_left_padding(n) - ARC_RADIUS))

\* the connector from the last child back up to the entry line
Stack_return_connector(n, x, running_y, h_dir) ==
    LET child == n.children[Len(n.children)]
        p1 == horizontal(
                  move_to(PathData_new(h_dir),
                          x + Stack_left_padding(n) + width(child),
                          running_y + entry_height(child)),
                  width(n) - width(child) - Stack_left_padding(n)
                      - ARC_RADIUS * 2)
        p2 == vertical(arc(p1, ARC_RADIUS, "WestToNorth"),
                       -height(n) + height_below_entry(child)
                           + ARC_RADIUS * 2 + entry_height(n))
    IN  into_path(arc(p2, ARC_RADIUS, "SouthToEast"))

Stack_draw(n, x, y, h_dir) ==
    LET len == Len(n.children)
        g0 == add(set_all(Element_new("g"), n.attributes),
                  into_path(horizontal(
                      move_to(PathData_new(h_dir), x, y + entry_height(n)),
                      Stack_left_padding(n))))
        steps == [i \in 1..(len - 1) |->
                     Stack_padded_height(n.children[i], n.children[i + 1])]
        \* each iteration pushes the connector, then the child
        pairs == [k \in 1..(2 * (len - 1)) |->
                     LET i == (k + 1) \div 2
                     IN  IF k % 2 = 1
                         THEN Stack_connector(n, x, running(y, steps, i), i, h_dir)
                         ELSE draw(n.children[i], x + Stack_left_padding(n),
                                   running(y, steps, i), h_dir)]
        running_y == running(y, steps, len)
        last == IF len = 0 THEN <<>>
                ELSE (IF len > 1
                      THEN <<Stack_return_connector(n, x, running_y, h_dir)>>
                      ELSE <<>>)
                     \o <<draw(n.children[len], x + Stack_left_padding(n),
                               running_y, h_dir)>>
    IN  debug(add_all(add_all(g0, pairs), last), "Stack", x, y, n)

\* the top, horizontal connectors
Choice_top_connector(n, x, y, h_dir) ==
    LET first_width ==
            first_or_default([i \in DOMAIN n.children |-> width(n.children[i])])
    IN  into_path(horizontal(move_rel(horizontal(
            move_to(PathData_new(h_dir), x, y + entry_height(n)),
            Choice_inner_padding(n)), first_width, 0),
            width(n) - Choice_inner_padding(n) - first_width))

\* the downward arcs
Choice_down_arcs(n, x, y, h_dir) ==
    LET d == cmp_max(0, height_below_entry(n.children[1]) + Choice_spacing
                            - ARC_RADIUS)
        p1 == vertical(arc(
                  move_to(PathData_new(h_dir), x, y + entry_height(n)),
                  ARC_RADIUS, "WestToSouth"), d)
        p2 == vertical(move_rel(p1, width(n) - ARC_RADIUS * 2, 0), -d)
    IN  into_path(arc(p2, ARC_RADIUS, "SouthToEast"))

\* the y at which the alternatives below the first child start
Choice_first_running_y(n, y) ==
    y + entry_height(n)
      + cmp_max(ARC_RADIUS, Choice_spacing + height_below_entry(n.children[1]))

\* the downward connector beside the child n.children[i], 1 < i < len
Choice_rail(n, x, running_y, i, h_dir) ==
    LET child == n.children[i]
        zz == cmp_max(0, entry_height(child) - ARC_RADIUS)
        z == Choice_padded_height(child) - zz
    IN  into_path(vertical(move_rel(vertical(
            move_to(PathData_new(h_dir), x + ARC_RADIUS, running_y + zz),
            z), width(n) - ARC_RADIUS * 2, 0), -z))

\* a faulty variant: the entry arc leaves the rail at the top of the row
Choice_child_arcs_unlowered(n, x, running_y, i, h_dir) ==
    LET child == n.children[i]
        p1 == arc(vertical(
                  move_to(PathData_new(h_dir), x + ARC_RADIUS, running_y), 0),
                  ARC_RADIUS, "NorthToEast")
        p2 == horizontal(move_rel(p1, width(child), 0),
                         max_width(n.children) - width(child))
    IN  into_path(vertical(arc(p2, ARC_RADIUS, "WestToNorth"), 0))

\* the arcs around the child n.children[i], i > 1
Choice_child_arcs(n, x, running_y, i, h_dir) ==
    LET child == n.children[i]
        p1 == arc(vertical(
                  move_to(PathData_new(h_dir), x + ARC_RADIUS, running_y),
                  cmp_max(0, entry_height(child) - ARC_RADIUS)),
                  ARC_RADIUS, "NorthToEast")
        p2 == horizontal(move_rel(p1, width(child), 0),
                         max_width(n.children) - width(child))
    IN  into_path(vertical(arc(p2, ARC_RADIUS, "WestToNorth"),
                           -cmp_max(0, entry_height(child) - ARC_RADIUS)))

Choice_draw(n, x, y, h_dir) ==
    LET len == Len(n.children)
        g0 == add(set_all(Element_new("g"), n.attributes),
                  Choice_top_connector(n, x, y, h_dir))
        first == IF len = 0 THEN <<>>
                 ELSE <<draw(n.children[1], x + Choice_inner_padding(n), y, h_dir)>>
        steps == [i \in 1..(len - 1) |-> Choice_padded_height(n.children[i + 1])]
        y0 == Choice_first_running_y(n, y)
        rails == [k \in 1..(len - 2) |->
                     Choice_rail(n, x, running(y0, steps, k), k + 1, h_dir)]
        \* each iteration pushes the arcs, then the child
        alts == [k \in 1..(2 * (len - 1)) |->
                    LET i == (k + 1) \div 2
                        child == n.children[i + 1]
                    IN  IF k % 2 = 1
                        THEN Choice_child_arcs(n, x, running(y0, steps, i),
                                               i + 1, h_dir)
                        ELSE draw(child, x + ARC_RADIUS * 2,
                                  running(y0, steps, i)
                                      + cmp_max(0, ARC_RADIUS - entry_height(child)),
                                  h_dir)]
        more == IF len > 1
                THEN <<Choice_down_arcs(n, x, y, h_dir)>> \o rails \o alts
                ELSE <<>>
    IN  debug(add_all(add_all(g0, first), more), "Choice", x, y, n)

\* a faulty variant: the loop does not run back below a wider inner node
Repeat_path_open(n, x, y, h_dir) ==
    LET inner == n.children[1]
        repeat == n.children[2]
        p1 == move_rel(horizontal(
                  move_to(PathData_new(h_dir), x, y + entry_height(n)),
                  ARC_RADIUS), width(inner), 0)
        p2 == move_rel(horizontal(p1,
                  cmp_max(ARC_RADIUS, width(repeat) - width(inner) + ARC_RADIUS)),
                  -ARC_RADIUS, 0)
        p3 == vertical(arc(p2, ARC_RADIUS, "WestToSouth"),
                       Repeat_height_between_entries(n) - ARC_RADIUS * 2)
        p4 == move_rel(arc(p3, ARC_RADIUS, "NorthToWest"), -width(repeat), 0)
        p5 == horizontal(p4, 0)
        p6 == vertical(arc(p5, ARC_RADIUS, "EastToNorth"),
                       -Repeat_height_between_entries(n) + ARC_RADIUS * 2)
    IN  into_path(arc(p6, ARC_RADIUS, "SouthToEast"))

Repeat_path(n, x, y, h_dir) ==
    LET inner == n.children[1]
        repeat == n.children[2]
        p1 == move_rel(horizontal(
                  move_to(PathData_new(h_dir), x, y + entry_height(n)),
                  ARC_RADIUS), width(inner), 0)
        p2 == move_rel(horizontal(p1,
                  cmp_max(ARC_RADIUS, width(repeat) - width(inner) + ARC_RADIUS)),
                  -ARC_RADIUS, 0)
        p3 == vertical(arc(p2, ARC_RADIUS, "WestToSouth"),
                       Repeat_height_between_entries(n) - ARC_RADIUS * 2)
        p4 == move_rel(arc(p3, ARC_RADIUS, "NorthToWest"), -width(repeat), 0)
        p5 == horizontal(p4, cmp_min(0, width(repeat) - width(inner)))
        p6 == vertical(arc(p5, ARC_RADIUS, "EastToNorth"),
                       -Repeat_height_between_entries(n) + ARC_RADIUS * 2)
    IN  into_path(arc(p6, ARC_RADIUS, "SouthToEast"))

\* a faulty variant: the repeat child is handed the direction unchanged
Repeat_draw_uninverted(n, x, y, h_dir) ==
    LET inner == n.children[1]
        repeat == n.children[2]
        g0 == set_all(Element_new("g"), n.attributes)
        g1 == add(add(g0, Repeat_path(n, x, y, h_dir)),
                  draw(repeat,
                       x + width(n) - width(repeat) - ARC_RADIUS,
                       y + height(n) - height_below_entry(repeat)
                           - entry_height(repeat),
                       h_dir))
    IN  debug(add(g1, draw(inner, x + ARC_RADIUS, y, h_dir)), "Repeat", x, y, n)

Repeat_draw(n, x, y, h_dir) ==
    LET inner == n.children[1]
        repeat == n.children[2]
        g0 == set_all(Element_new("g"), n.attributes)
        g1 == add(add(g0, Repeat_path(n, x, y, h_dir)),
                  draw(repeat,
                       x + width(n) - width(repeat) - ARC_RADIUS,
                       y + height(n) - height_below_entry(repeat)
                           - entry_height(repeat),
                       HDir_invert(h_dir)))
    IN  debug(add(g1, draw(inner, x + ARC_RADIUS, y, h_dir)), "Repeat", x, y, n)

Debug_draw(n, x, y, h_dir) ==
    debug(set_all(set(set(set(set(Element_new("rect"),
              "x", x), "y", y), "height", height(n)), "width", width(n)),
              n.attributes),
          "Debug", x, y, n)

Empty_draw(n, x, y, h_dir) == debug(Element_new("g"), "Empty", x, y, n)

LabeledBox_draw(n, x, y, h_dir) ==
    LET inner == n.children[1]
        label == n.children[2]
        r == set(set(set(set(Element_new("rect"),
                 "x", x), "y", y), "height", height(n)), "width", width(n))
        p == into_path(horizontal(move_rel(horizontal(
                 move_to(PathData_new(h_dir), x, y + entry_height(n)),
                 LabeledBox_padding(n)), width(inner), 0),
                 width(n) - width(inner) - LabeledBox_padding(n)))
        l == draw(label, x + LabeledBox_padding(n), y + LabeledBox_padding(n),
                  h_dir)
        i == draw(inner, x + LabeledBox_padding(n),
                  y + LabeledBox_padding(n) + height(label)
                      + LabeledBox_spacing(n),
                  h_dir)
    IN  debug(set_all(add(add(add(add(Element_new("g"), r), p), l), i),
                      n.attributes),
              "LabeledBox", x, y, n)

Comment_draw(n, x, y, h_dir) ==
    debug(text(set(set(set_all(Element_new("text"), n.attributes),
                   "x", x + RustDiv(width(n), 2)), "y", y + 15), n.label),
          "Comment", x, y, n)

\* a faulty variant: the viewBox is the root's size, without the padding
Diagram_draw_root_viewbox(n, x, y, h_dir) ==
    LET root == n.children[1]
        e0 == set(set(set(set(Element_new("svg"),
                  "xmlns", "http://www.w3.org/2000/svg"),
                  "xmlns:xlink", "http://www.w3.org/1999/xlink"),
                  "class", "railroad"),
                  "viewBox", <<0, 0, width(root), height(root)>>)
        e2 == add_all(set_all(e0, n.attributes), n.extra_elements)
    IN  add(e2, draw(root, x + Diagram_left_padding,
                     y + Diagram_top_padding, h_dir))

Diagram_draw(n, x, y, h_dir) ==
    LET e0 == set(set(set(set(Element_new("svg"),
                  "xmlns", "http://www.w3.org/2000/svg"),
                  "xmlns:xlink", "http://www.w3.org/1999/xlink"),
                  "class", "railroad"),
                  "viewBox", <<0, 0, width(n), height(n)>>)
        e1 == set_all(e0, n.attributes)
        e2 == add_all(e1, n.extra_elements)
    IN  add(e2, draw(n.children[1], x + Diagram_left_padding,
                     y + Diagram_top_padding, h_dir))

\* Diagram::write and Display for Diagram: the element they serialize
Diagram_write(n) == Diagram_draw(n, 0, 0, "LTR")

draw(n, x, y, h_dir) ==
    CASE n.kind = "Link" -> Link_draw(n, x, y, h_dir)
      [] n.kind = "VerticalGrid" -> VerticalGrid_draw(n, x, y, h_dir)
      [] n.kind = "HorizontalGrid" -> HorizontalGrid_draw(n, x, y, h_dir)
      [] n.kind = "Sequence" -> Sequence_draw(n, x, y, h_dir)
      [] n.kind = "End" -> End_draw(n, x, y, h_dir)
      [] n.kind = "SimpleStart" -> SimpleStart_draw(n, x, y, h_dir)
      [] n.kind = "SimpleEnd" -> SimpleEnd_draw(n, x, y, h_dir)
      [] n.kind = "Start" -> Start_draw(n, x, y, h_dir)
      [] n.kind = "Terminal" -> Terminal_draw(n, x, y, h_dir)
      [] n.kind = "NonTerminal" -> NonTerminal_draw(n, x, y, h_dir)
      [] n.kind = "Optional" -> Optional_draw(n, x, y, h_dir)
      [] n.kind = "Stack" -> Stack_draw(n, x, y, h_dir)
      [] n.kind = "Choice" -> Choice_draw(n, x, y, h_dir)
      [] n.kind = "Repeat" -> Repeat_draw(n, x, y, h_dir)
      [] n.kind = "Debug" -> Debug_draw(n, x, y, h_dir)
      [] n.kind = "Empty" -> Empty_draw(n, x, y, h_dir)
      [] n.kind = "LabeledBox" -> LabeledBox_draw(n, x, y, h_dir)
      [] n.kind = "Comment" -> Comment_draw(n, x, y, h_dir)
      [] n.kind = "Diagram" -> Diagram_draw(n, x, y, h_dir)

(***************************************************************************)
(* Constructors and builder operations.                                    *)
(***************************************************************************)
\* a struct with every field at its empty value
blank(kind, children) ==
    [kind |-> kind, children |-> children,
     entry_height |-> 0, height |-> 0, width |-> 0,
     label |-> <<>>, attributes |-> <<>>,
     uri |-> <<>>, target |-> "None", extra_elements |-> <<>>]

with_class(n, class) ==
    [n EXCEPT !.attributes = map_insert(@, "class", class)]

Unit_new(kind) == measured(blank(kind, <<>>))
Terminal_new(label) ==
    measured(with_class([blank("Terminal", <<>>) EXCEPT !.label = label],
                        "terminal"))
NonTerminal_new(label) ==
    measured(with_class([blank("NonTerminal", <<>>) EXCEPT !.label = label],
                        "nonterminal"))
Comment_new(t) ==
    measured(with_class([blank("Comment", <<>>) EXCEPT !.label = t], "comment"))
\* a faulty variant: equal entry height and height are let through
Debug_new_assert_le(eh, h) == eh <= h

\* assert!(entry_height < height): Debug::new panics when it is false
Debug_new_assert(eh, h) == eh < h

Debug_new(eh, h, w) ==
    measured([blank("Debug", <<>>) EXCEPT
        !.entry_height = eh, !.height = h, !.width = w,
        !.attributes = map_insert(map_insert(@, "class", "debug"), "style",
            "fill: hsla(0, 100%, 90%, 0.9); stroke-width: 2; stroke: red")])
Link_new(inner, uri) ==
    measured(with_class([blank("Link", <<inner>>) EXCEPT !.uri = uri], "link"))
VerticalGrid_new(children) ==
    measured(with_class(blank("VerticalGrid", children), "verticalgrid"))
HorizontalGrid_new(children) ==
    measured(with_class(blank("HorizontalGrid", children), "horizontalgrid"))
Sequence_new(children) == measured(blank("Sequence", children))
Optional_new(inner) ==
    measured(with_class(blank("Optional", <<inner>>), "optional"))
Stack_new(children) == measured(with_class(blank("Stack", children), "stack"))
Choice_new(children) ==
    measured(with_class(blank("Choice", children), "choice"))
Repeat_new(inner, repeat) ==
    measured(with_class(blank("Repeat", <<inner, repeat>>), "repeat"))
LabeledBox_new(inner, label) ==
    measured(with_class(blank("LabeledBox", <<inner, label>>), "labeledbox"))
Diagram_new(root) == measured(blank("Diagram", <<root>>))

\* a faulty variant: the values of the methods are those of the list before
push_unmeasured(n, child) == [n EXCEPT !.children = Append(@, child)]

\* Vec::push of the collections
push(n, child) == measured([n EXCEPT !.children = Append(@, child)])

\* Default::default of the collections and of Optional, Repeat, LabeledBox
\* (over Empty): no child but the defaults of the type parameters, the
\* spacing and padding of new, and an empty attribute map
default(kind) ==
    measured(blank(kind,
        CASE kind = "Optional" -> <<Unit_new("Empty")>>
          [] kind \in {"Repeat", "LabeledBox"} ->
                <<Unit_new("Empty"), Unit_new("Empty")>>
          [] OTHER -> <<>>))

\* FromIterator::from_iter: Self::new(iter.into_iter().collect())
from_iter(kind, iter) ==
    CASE kind = "Sequence" -> Sequence_new(iter)
      [] kind = "Choice" -> Choice_new(iter)
      [] kind = "Stack" -> Stack_new(iter)
      [] kind = "VerticalGrid" -> VerticalGrid_new(iter)
      [] kind = "HorizontalGrid" -> HorizontalGrid_new(iter)

\* into_inner: the Vec of children, moved out
into_inner(n) == n.children

(***************************************************************************)
(* The inputs the model draws from.                                        *)
(***************************************************************************)
\* the unit structs the model builds
UnitKinds == {"Start", "Empty"}
CollectionKinds ==
    {"Sequence", "Choice", "Stack", "VerticalGrid", "HorizontalGrid"}
\* Foo<bar>
LabelFoo == <<"F", "o", "o", "<", "b", "a", "r", ">">>
\* the arguments of Debug::new the model tries: (entry_height, height, width)
DebugArgs ==
    {<<20, 30, 10>>, <<30, 50, 70>>, <<-1, 0, 5>>, <<5, 5, 5>>}
Uris == {<<"h", "t", "t", "p", ":", "/", "/", "a", "?", "b", "&", "c">>}
\* the arguments of draw the model tries: (x, y, h_dir)
DrawArgs == {<<0, 0, "LTR">>, <<3, 7, "RTL">>}

RECURSIVE size(_)
\* the number of nodes of a tree
size(n) == 1 + iter_sum([i \in DOMAIN n.children |-> size(n.children[i])])

total_size(ns) == iter_sum([i \in DOMAIN ns |-> size(ns[i])])

(***************************************************************************)
(* The state: the caller's workbench.                                      *)
(*   built   the nodes the caller holds, a stack; a constructor moves the  *)
(*           nodes it is given out of the stack and leaves the new node on *)
(*           top                                                           *)
(*   out     the result of the latest call when that call was draw, with   *)
(*           its arguments: <<[x, y, h_dir, element]>>, the drawn node     *)
(*           being built[1]; <<[name, value]>> when it was a query of one  *)
(*           of the three values of built[1]; <<>> otherwise               *)
(*   path    the PathData the caller is writing, <<p>>; <<>> when none     *)
(*   elems   the Elements the caller holds, a stack like built             *)
(*   call    the latest call of which the model keeps the arguments and    *)
(*           the outcome, <<[name, args, ...]>>; <<>> otherwise            *)
(***************************************************************************)
VARIABLES built, out, path, elems, call

vars == <<built, out, path, elems, call>>

Init ==
    /\ built = <<>>
    /\ out = <<>>
    /\ path = <<>>
    /\ elems = <<>>
    /\ call = <<>>

top == built[Len(built)]
below(k) == SubSeq(built, 1, Len(built) - k)
taken(k) == SubSeq(built, Len(built) - k + 1, Len(built))
room == total_size(built) < MaxNodes

NewUnit ==
    \E kind \in UnitKinds :
        /\ room
        /\ built' = Append(built, Unit_new(kind))
        /\ out' = <<>>
        /\ UNCHANGED <<path, elems, call>>

NewTerminal ==
    /\ room
    /\ built' = Append(built, Terminal_new(LabelFoo))
    /\ out' = <<>>
    /\ UNCHANGED <<path, elems, call>>

NewDebug ==
    \E a \in DebugArgs :
        /\ room
        /\ Debug_new_assert(a[1], a[2])
        /\ built' = Append(built, Debug_new(a[1], a[2], a[3]))
        /\ out' = <<>>
        /\ UNCHANGED <<path, elems, call>>

NewCollection ==
    \E kind \in CollectionKinds, k \in 0..Len(built) :
        /\ room
        \* an empty collection is made to be filled: on an empty workbench
        /\ k = 0 => built = <<>>
        /\ built' = Append(below(k),
              CASE kind = "Sequence" -> Sequence_new(taken(k))
                [] kind = "Choice" -> Choice_new(taken(k))
                [] kind = "Stack" -> Stack_new(taken(k))
                [] kind = "VerticalGrid" -> VerticalGrid_new(taken(k))
                [] kind = "HorizontalGrid" -> HorizontalGrid_new(taken(k)))
        /\ out' = <<>>
        /\ UNCHANGED <<path, elems, call>>

Push ==
    /\ Len(built) >= 2
    /\ built[Len(built) - 1].kind \in CollectionKinds
    /\ built' = Append(below(2), push(built[Len(built) - 1], top))
    /\ out' = <<>>
    /\ UNCHANGED <<path, elems, call>>

NewOptional ==
    /\ Len(built) >= 1
    /\ room
    /\ built' = Append(below(1), Optional_new(top))
    /\ out' = <<>>
    /\ UNCHANGED <<path, elems, call>>

NewRepeat ==
    /\ Len(built) >= 2
    /\ room
    /\ built' = Append(below(2), Repeat_new(built[Len(built) - 1], top))
    /\ out' = <<>>
    /\ UNCHANGED <<path, elems, call>>

NewLabeledBox ==
    /\ Len(built) >= 2
    /\ room
    /\ built' = Append(below(2), LabeledBox_new(built[Len(built) - 1], top))
    /\ out' = <<>>
    /\ UNCHANGED <<path, elems, call>>

NewLink ==
    \E uri \in Uris :
        /\ Len(built) >= 1
        /\ room
        /\ built' = Append(below(1), Link_new(top, uri))
        /\ out' = <<>>
        /\ UNCHANGED <<path, elems, call>>

NewDiagram ==
    /\ Len(built) = 1
    /\ room
    /\ top.kind # "Diagram"
    /\ built' = Append(below(1), Diagram_new(top))
    /\ out' = <<>>
    /\ UNCHANGED <<path, elems, call>>

Draw ==
    \E a \in DrawArgs :
        /\ Len(built) = 1
        /\ out' = <<[x |-> a[1], y |-> a[2], h_dir |-> a[3],
                     element |-> draw(top, a[1], a[2], a[3])]>>
        /\ UNCHANGED <<built, path, elems, call>>

Next ==
    \/ NewUnit
    \/ NewTerminal
    \/ NewDebug
    \/ NewCollection
    \/ Push
    \/ NewOptional
    \/ NewRepeat
    \/ NewLabeledBox
    \/ NewLink
    \/ NewDiagram
    \/ Draw

Spec == Init /\ [][Next]_vars

(***************************************************************************)
(* A second caller: it collects up to MaxChildren Debug leaves, hands them *)
(* all to one collection constructor (Sequence::new(vec), ...) and draws   *)
(* the result.  The collections' geometry is a pure function of the child  *)
(* list; this caller reaches the longer lists.                             *)
(***************************************************************************)
\* the arguments of Debug::new this caller tries: those of the first, a leaf
\* whose entry height is less than ARC_RADIUS, and a leaf of width 0 that
\* reaches one unit below its entry line
FlatDebugArgs == DebugArgs \cup {<<5, 20, 30>>, <<0, 1, 0>>}

FlatNewDebug ==
    \E a \in FlatDebugArgs :
        /\ Len(built) < MaxChildren
        /\ \A i \in DOMAIN built : built[i].kind = "Debug"
        /\ Debug_new_assert(a[1], a[2])
        /\ built' = Append(built, Debug_new(a[1], a[2], a[3]))
        /\ out' = <<>>
        /\ UNCHANGED <<path, elems, call>>

FlatNewCollection ==
    \E kind \in CollectionKinds :
        /\ \A i \in DOMAIN built : built[i].kind = "Debug"
        /\ built' =
              <<CASE kind = "Sequence" -> Sequence_new(built)
                  [] kind = "Choice" -> Choice_new(built)
                  [] kind = "Stack" -> Stack_new(built)
                  [] kind = "VerticalGrid" -> VerticalGrid_new(built)
                  [] kind = "HorizontalGrid" -> HorizontalGrid_new(built)>>
        /\ out' = <<>>
        /\ UNCHANGED <<path, elems, call>>

FlatNext ==
    \/ FlatNewDebug
    \/ FlatNewCollection
    \/ Draw

FlatSpec == Init /\ [][FlatNext]_vars

(***************************************************************************)
(* A third caller: it builds two leaves, each Empty or a Debug leaf with   *)
(* every argument drawn from -MaxSide .. MaxSide, boxes the first with the *)
(* second as its label, and draws the result.  Each call of Debug::new is  *)
(* kept in call, with whether it panicked.                                 *)
(***************************************************************************)
Sides == (0 - MaxSide)..MaxSide

BoxNewDebug ==
    \E a \in Sides \X Sides \X Sides :
        /\ Len(built) < 2
        /\ \A i \in DOMAIN built : built[i].kind \in {"Debug", "Empty"}
        \* a panic leaves no node; the caller catches it and goes on
        /\ built' = IF Debug_new_assert(a[1], a[2])
                    THEN Append(built, Debug_new(a[1], a[2], a[3]))
                    ELSE built
        /\ call' = <<[name |-> "Debug::new", args |-> a,
                      panicked |-> ~Debug_new_assert(a[1], a[2])]>>
        /\ out' = <<>>
        /\ UNCHANGED <<path, elems>>

BoxNewEmpty ==
    /\ Len(built) < 2
    /\ \A i \in DOMAIN built : built[i].kind \in {"Debug", "Empty"}
    /\ built' = Append(built, Unit_new("Empty"))
    /\ out' = <<>>
    /\ call' = <<>>
    /\ UNCHANGED <<path, elems>>

BoxNewLabeledBox ==
    /\ Len(built) = 2
    /\ built' = <<LabeledBox_new(built[1], built[2])>>
    /\ out' = <<>>
    /\ call' = <<>>
    /\ UNCHANGED <<path, elems>>

BoxNext ==
    \/ BoxNewDebug
    \/ BoxNewEmpty
    \/ BoxNewLabeledBox
    \/ Draw

BoxSpec == Init /\ [][BoxNext]_vars

(***************************************************************************)
(* A caller that nests combinators around probes.  A probe is an Optional  *)
(* around a terminal wide enough for the bypass to carry a chevron, so the *)
(* drawing of a probe shows the direction it was drawn with.  The caller   *)
(* draws what it built, or writes it out when it is a Diagram.             *)
(***************************************************************************)
MaxCombinators == 2

\* four columns make a terminal 52 wide, more than a run without a chevron
ProbeLabel == <<"b", "a", "r", "r">>

is_probe(n) ==
    /\ n.kind = "Optional"
    /\ n.children[1].kind = "Terminal"

RECURSIVE combinators(_)
\* the combinators of a tree, the probes' own Optional apart
combinators(n) ==
    IF is_probe(n) THEN 0
    ELSE 1 + iter_sum([i \in DOMAIN n.children |-> combinators(n.children[i])])

\* the combinators the caller may still apply once every tree it holds has
\* been joined to the one below it
spare ==
    MaxCombinators - iter_sum([i \in DOMAIN built |-> combinators(built[i])])
        - (Len(built) - 1)

LoopProbe ==
    /\ spare >= 1
    /\ built' = Append(built, Optional_new(Terminal_new(ProbeLabel)))
    /\ out' = <<>>
    /\ call' = <<>>
    /\ UNCHANGED <<path, elems>>

LoopWrap ==
    \E kind \in {"Optional", "Link", "Diagram"} :
        /\ Len(built) >= 1
        /\ spare >= 1
        /\ kind = "Diagram" => (Len(built) = 1 /\ top.kind # "Diagram")
        /\ built' = Append(below(1),
              CASE kind = "Optional" -> Optional_new(top)
                [] kind = "Link" -> Link_new(top, "https://www.google.com")
                [] kind = "Diagram" -> Diagram_new(top))
        /\ out' = <<>>
        /\ call' = <<>>
        /\ UNCHANGED <<path, elems>>

LoopJoin ==
    \E kind \in CollectionKinds \cup {"Repeat", "LabeledBox"} :
        /\ Len(built) >= 2
        /\ built' = Append(below(2),
              CASE kind = "Sequence" -> Sequence_new(taken(2))
                [] kind = "Choice" -> Choice_new(taken(2))
                [] kind = "Stack" -> Stack_new(taken(2))
                [] kind = "VerticalGrid" -> VerticalGrid_new(taken(2))
                [] kind = "HorizontalGrid" -> HorizontalGrid_new(taken(2))
                [] kind = "Repeat" -> Repeat_new(built[Len(built) - 1], top)
                [] kind = "LabeledBox" ->
                       LabeledBox_new(built[Len(built) - 1], top))
        /\ out' = <<>>
        /\ call' = <<>>
        /\ UNCHANGED <<path, elems>>

LoopDraw ==
    \E a \in DrawArgs :
        /\ Len(built) = 1
        /\ out' = <<[x |-> a[1], y |-> a[2], h_dir |-> a[3],
                     element |-> draw(top, a[1], a[2], a[3])]>>
        /\ call' = <<[name |-> "draw"]>>
        /\ UNCHANGED <<built, path, elems>>

LoopWrite ==
    /\ Len(built) = 1
    /\ top.kind = "Diagram"
    /\ out' = <<[x |-> 0, y |-> 0, element |-> Diagram_write(top)]>>
    /\ call' = <<[name |-> "write"]>>
    /\ UNCHANGED <<built, path, elems>>

LoopNext == LoopProbe \/ LoopWrap \/ LoopJoin \/ LoopDraw \/ LoopWrite

LoopSpec == Init /\ [][LoopNext]_vars

(***************************************************************************)
(* A caller that writes one path with the PathData builder: it makes the   *)
(* builder with a direction flag, calls move_to, horizontal, vertical and  *)
(* arc on it, and turns it into a path element, which it drops when it     *)
(* starts the next path.  call keeps the latest call with the number of    *)
(* commands the path held before it.                                       *)
(***************************************************************************)
MaxCalls == 2

RunLengths == {-100, -51, -50, 0, 50, 51, 100}
Origins == {<<0, 0>>, <<3, 7>>}
ArcKinds ==
    {"EastToNorth", "EastToSouth", "NorthToEast", "NorthToWest",
     "SouthToEast", "SouthToWest", "WestToNorth", "WestToSouth"}

\* the calls made on a builder so far: each leaves one command that is not
\* a relative move or a stroke
path_calls(p) ==
    Cardinality({i \in DOMAIN p.text : p.text[i][1] \in {"M", "h", "v", "a"}})

PathNew ==
    \E d \in {"LTR", "RTL"} :
        /\ path = <<>>
        /\ path' = <<PathData_new(d)>>
        /\ call' = <<>>
        /\ elems' = <<>>
        /\ UNCHANGED <<built, out>>

PathMoveTo ==
    \E a \in Origins :
        /\ path # <<>>
        /\ path_calls(path[1]) < MaxCalls
        /\ path' = <<move_to(path[1], a[1], a[2])>>
        /\ call' = <<[name |-> "move_to", args |-> a,
                      before |-> Len(path[1].text)]>>
        /\ UNCHANGED <<built, out, elems>>

PathHorizontal ==
    \E h \in RunLengths :
        /\ path # <<>>
        /\ path_calls(path[1]) < MaxCalls
        /\ path' = <<horizontal(path[1], h)>>
        /\ call' = <<[name |-> "horizontal", args |-> <<h>>,
                      before |-> Len(path[1].text)]>>
        /\ UNCHANGED <<built, out, elems>>

PathVertical ==
    \E h \in RunLengths :
        /\ path # <<>>
        /\ path_calls(path[1]) < MaxCalls
        /\ path' = <<vertical(path[1], h)>>
        /\ call' = <<[name |-> "vertical", args |-> <<h>>,
                      before |-> Len(path[1].text)]>>
        /\ UNCHANGED <<built, out, elems>>

PathArc ==
    \E kind \in ArcKinds :
        /\ path # <<>>
        /\ path_calls(path[1]) < MaxCalls
        /\ path' = <<arc(path[1], ARC_RADIUS, kind)>>
        /\ call' = <<[name |-> "arc", args |-> <<ARC_RADIUS, kind>>,
                      before |-> Len(path[1].text)]>>
        /\ UNCHANGED <<built, out, elems>>

PathIntoPath ==
    /\ path # <<>>
    /\ elems' = <<into_path(path[1])>>
    /\ path' = <<>>
    /\ call' = <<>>
    /\ UNCHANGED <<built, out>>

PathNext ==
    \/ PathNew
    \/ PathMoveTo
    \/ PathHorizontal
    \/ PathVertical
    \/ PathArc
    \/ PathIntoPath

PathSpec == Init /\ [][PathNext]_vars

(***************************************************************************)
(* A caller that builds elements by hand and serializes them.  It holds    *)
(* the elements it is building in elems, a stack: it sets attributes and   *)
(* text on the one on top, adds it to the one below as a child or a        *)
(* sibling, and calls to_string on it.  MaxPieces bounds what the caller   *)
(* builds: every element, attribute and text is a piece.                   *)
(***************************************************************************)
MaxPieces == 4

ElemNames == {"g", "rect"}
ElemKeys == {"class", "x"}
ElemValues == {"1", "2"}
\* the texts the caller sets: an empty one as it is, and one to be escaped
ElemTexts == {<<>>, <<"a", "<">>}

\* the orders in which a HashMap may hand out the keys
Orders ==
    {o \in [1..Cardinality(ElemKeys) -> ElemKeys] :
        \A i, j \in DOMAIN o : i # j => o[i] # o[j]}

RECURSIVE pieces(_)
pieces(e) ==
    1 + Cardinality(DOMAIN e.attributes) + Len(e.text)
      + iter_sum([i \in DOMAIN e.children |-> pieces(e.children[i])])
      + iter_sum([i \in DOMAIN e.siblings |-> pieces(e.siblings[i])])

elem_room == iter_sum([i \in DOMAIN elems |-> pieces(elems[i])]) < MaxPieces

top_elem == elems[Len(elems)]

ElemNew ==
    \E name \in ElemNames :
        /\ elem_room
        /\ elems' = Append(elems, Element_new(name))
        /\ call' = <<>>
        /\ UNCHANGED <<built, out, path>>

ElemSet ==
    \E k \in ElemKeys, v \in ElemValues :
        /\ elems # <<>>
        /\ elem_room \/ k \in DOMAIN top_elem.attributes
        /\ elems' = [elems EXCEPT ![Len(elems)] = set(@, k, v)]
        /\ call' = <<[name |-> "set", args |-> <<k, v>>]>>
        /\ UNCHANGED <<built, out, path>>

ElemSetAll ==
    \E v \in ElemValues :
        /\ elems # <<>>
        /\ iter_sum([i \in DOMAIN elems |-> pieces(elems[i])]) + 2 <= MaxPieces
        /\ elems' = [elems EXCEPT ![Len(elems)] =
                         set_all(@, [k \in ElemKeys |-> v])]
        /\ call' = <<[name |-> "set_all", args |-> <<v>>]>>
        /\ UNCHANGED <<built, out, path>>

ElemText ==
    \E t \in ElemTexts :
        /\ elems # <<>>
        /\ top_elem.text = <<>>
        /\ elem_room
        /\ elems' = [elems EXCEPT ![Len(elems)] =
                         IF t = <<>> THEN raw_text(@, t) ELSE text(@, t)]
        /\ call' = <<>>
        /\ UNCHANGED <<built, out, path>>

ElemAdd ==
    /\ Len(elems) >= 2
    /\ elems' = Append(SubSeq(elems, 1, Len(elems) - 2),
                       add(elems[Len(elems) - 1], top_elem))
    /\ call' = <<>>
    /\ UNCHANGED <<built, out, path>>

ElemAppend ==
    /\ Len(elems) >= 2
    /\ elems' = Append(SubSeq(elems, 1, Len(elems) - 2),
                       append(elems[Len(elems) - 1], top_elem))
    /\ call' = <<>>
    /\ UNCHANGED <<built, out, path>>

\* ToString::to_string, through Display
ElemToString ==
    \E order \in Orders :
        /\ elems # <<>>
        /\ call' = <<[name |-> "to_string",
                      output |-> Element_fmt(top_elem, order)]>>
        /\ UNCHANGED <<built, out, path, elems>>

ElemNext ==
    \/ ElemNew
    \/ ElemSet
    \/ ElemSetAll
    \/ ElemText
    \/ ElemAdd
    \/ ElemAppend
    \/ ElemToString

ElemSpec == Init /\ [][ElemNext]_vars

(***************************************************************************)
(* A caller that composes a string character by character and then        *)
(* escapes it, with encode_minimal, with encode_attribute, or by giving it *)
(* to Element::text.  call keeps the string while it grows, and then the   *)
(* call made on it with what the call returned.                            *)
(***************************************************************************)
MaxLen == 3

EncodeChars == {"a", "7", "<", ">", "&", "\"", "'", " ", "U+00E5", "U+0100"}

\* the string is still being composed
composing == IF call = <<>> THEN TRUE ELSE call[1].name = "String::push"

\* the string composed so far
composed == IF call = <<>> THEN <<>> ELSE call[1].args

EncodePush ==
    \E c \in EncodeChars :
        /\ composing
        /\ Len(composed) < MaxLen
        /\ call' = <<[name |-> "String::push", args |-> Append(composed, c)]>>
        /\ UNCHANGED <<built, out, path, elems>>

EncodeMinimal ==
    /\ composing
    /\ call' = <<[name |-> "encode_minimal", args |-> composed,
                  result |-> encode_minimal(composed)]>>
    /\ UNCHANGED <<built, out, path, elems>>

EncodeAttribute ==
    /\ composing
    /\ call' = <<[name |-> "encode_attribute", args |-> composed,
                  result |-> encode_attribute(composed)]>>
    /\ UNCHANGED <<built, out, path, elems>>

EncodeText ==
    /\ composing
    /\ elems' = <<text(Element_new("text"), composed)>>
    /\ call' = <<[name |-> "text", args |-> composed]>>
    /\ UNCHANGED <<built, out, path>>

EncodeNext == EncodePush \/ EncodeMinimal \/ EncodeAttribute \/ EncodeText

EncodeSpec == Init /\ [][EncodeNext]_vars

(***************************************************************************)
(* A caller of the builder interface.  It makes leaves and wraps them,     *)
(* starts a collection from the nodes it holds (new, from_iter) or         *)
(* from nothing (default), pushes further leaves one at a time, asks the   *)
(* node on its workbench for one of its three values, draws it, or takes   *)
(* the children back with into_inner.  call keeps how the collection at    *)
(* built[1] came to be: the operation that started it, the children it     *)
(* started with, the children pushed since, and what into_inner returned.  *)
(* A query leaves <<[name, value]>> in out.                                *)
(***************************************************************************)
BuilderLeaves ==
    {Terminal_new(ProbeLabel), NonTerminal_new(ProbeLabel),
     Comment_new(ProbeLabel), Debug_new(30, 50, 70)}
WrapperKinds == {"Optional", "Repeat", "LabeledBox", "Link"}
Queries == {"entry_height", "height", "width"}

builder_room == total_size(built) < MaxNodes
collecting == IF built = <<>> THEN FALSE ELSE built[1].kind \in CollectionKinds

BuilderLeaf ==
    \E leaf \in BuilderLeaves :
        /\ builder_room
        /\ collecting => Len(built) = 1
        /\ built' = Append(built, leaf)
        /\ out' = <<>>
        /\ UNCHANGED <<path, elems, call>>

BuilderWrap ==
    \E kind \in WrapperKinds :
        /\ builder_room
        /\ ~collecting
        /\ Len(built) >= (IF kind \in {"Repeat", "LabeledBox"} THEN 2 ELSE 1)
        /\ built' =
              CASE kind = "Optional" -> Append(below(1), Optional_new(top))
                [] kind = "Link" ->
                      Append(below(1), Link_new(top, CHOOSE u \in Uris : TRUE))
                [] kind = "Repeat" ->
                      Append(below(2),
                             Repeat_new(built[Len(built) - 1], top))
                [] kind = "LabeledBox" ->
                      Append(below(2),
                             LabeledBox_new(built[Len(built) - 1], top))
        /\ out' = <<>>
        /\ call' = <<>>
        /\ UNCHANGED <<path, elems>>

BuilderNew ==
    \E kind \in CollectionKinds, name \in {"new", "from_iter"} :
        /\ ~collecting
        /\ built' = <<IF name = "new"
                      THEN CASE kind = "Sequence" -> Sequence_new(built)
                             [] kind = "Choice" -> Choice_new(built)
                             [] kind = "Stack" -> Stack_new(built)
                             [] kind = "VerticalGrid" -> VerticalGrid_new(built)
                             [] kind = "HorizontalGrid" ->
                                   HorizontalGrid_new(built)
                      ELSE from_iter(kind, built)>>
        /\ call' = <<[name |-> name, started |-> name, initial |-> built,
                      pushed |-> <<>>, returned |-> <<>>]>>
        /\ out' = <<>>
        /\ UNCHANGED <<path, elems>>

BuilderDefault ==
    \E kind \in CollectionKinds \cup (WrapperKinds \ {"Link"}) :
        /\ built = <<>>
        /\ built' = <<default(kind)>>
        /\ call' = IF kind \in CollectionKinds
                   THEN <<[name |-> "default", started |-> "default",
                           initial |-> <<>>, pushed |-> <<>>,
                           returned |-> <<>>]>>
                   ELSE <<>>
        /\ out' = <<>>
        /\ UNCHANGED <<path, elems>>

BuilderPush ==
    /\ collecting
    /\ Len(built) = 2
    /\ built' = <<push(built[1], built[2])>>
    /\ call' = <<[call[1] EXCEPT !.name = "push",
                                 !.pushed = Append(@, built[2])]>>
    /\ out' = <<>>
    /\ UNCHANGED <<path, elems>>

BuilderIntoInner ==
    /\ collecting
    /\ Len(built) = 1
    /\ built' = into_inner(built[1])
    /\ call' = <<[call[1] EXCEPT !.name = "into_inner",
                                 !.returned = into_inner(built[1])]>>
    /\ out' = <<>>
    /\ UNCHANGED <<path, elems>>

BuilderQuery ==
    \E q \in Queries :
        /\ Len(built) = 1
        /\ out' = <<[name |-> q,
                     value |-> CASE q = "entry_height" -> entry_height(top)
                                 [] q = "height" -> height(top)
                                 [] q = "width" -> width(top)]>>
        /\ UNCHANGED <<built, path, elems, call>>

BuilderNext ==
    \/ BuilderLeaf
    \/ BuilderWrap
    \/ BuilderNew
    \/ BuilderDefault
    \/ BuilderPush
    \/ BuilderIntoInner
    \/ BuilderQuery
    \/ Draw

BuilderSpec == Init /\ [][BuilderNext]_vars

(***************************************************************************)
(* Reading the state: the nodes that exist, and the geometry of a drawn    *)
(* element.                                                                *)
(***************************************************************************)
RECURSIVE nodes_of(_)
\* a node and every node below it
nodes_of(n) ==
    {n} \cup UNION {nodes_of(n.children[i]) : i \in DOMAIN n.children}

all_nodes == UNION {nodes_of(built[i]) : i \in DOMAIN built}

\* the largest member of a finite set of integers, 0 for the empty set
max_or_zero(S) == IF S = {} THEN 0 ELSE CHOOSE m \in S : \A k \in S : k <= m

RECURSIVE sum_upto(_, _)
\* f[1] + ... + f[k]
sum_upto(f, k) == IF k = 0 THEN 0 ELSE sum_upto(f, k - 1) + f[k]

max2(a, b) == IF a >= b THEN a ELSE b

\* the position of the pen after the path command c, from the position p
pen_after(p, c) ==
    CASE c[1] = "M" -> <<c[2], c[3]>>
      [] c[1] \in {"m", "l"} -> <<p[1] + c[2], p[2] + c[3]>>
      [] c[1] = "h" -> <<p[1] + c[2], p[2]>>
      [] c[1] = "v" -> <<p[1], p[2] + c[2]>>
      [] c[1] = "a" -> <<p[1] + c[7], p[2] + c[8]>>

RECURSIVE pen_at(_, _)
\* the position of the pen after the first i commands of the path data d
pen_at(d, i) == IF i = 0 THEN <<0, 0>> ELSE pen_after(pen_at(d, i - 1), d[i])

\* every point a path visits: move targets, the ends of runs, arcs and strokes
path_points(d) == {pen_at(d, i) : i \in 1..Len(d)}

RECURSIVE elem_points(_)
\* the origin of every rect and the points of every path of an element tree
elem_points(e) ==
    (CASE e.name = "rect" -> {<<e.attributes["x"], e.attributes["y"]>>}
       [] e.name = "path" -> path_points(e.attributes["d"])
       [] OTHER -> {})
    \cup UNION {elem_points(e.children[i]) : i \in DOMAIN e.children}

in_box(p, x, y, w, h) ==
    /\ x <= p[1] /\ p[1] < x + w
    /\ y <= p[2] /\ p[2] < y + h

\* a path that holds no arc and no run or stroke of non-zero length
no_arc_no_run(e) ==
    /\ e.name = "path"
    /\ \A j \in DOMAIN e.attributes["d"] :
          LET c == e.attributes["d"][j]
          IN  /\ c[1] # "a"
              /\ c[1] \in {"h", "v"} => c[2] = 0
              /\ c[1] = "l" => (c[2] = 0 /\ c[3] = 0)

\* the node the latest draw was called on
drawn_node == built[1]

(***************************************************************************)
(* The properties.                                                         *)
(***************************************************************************)
\* C1: bounding-box containment.  Whatever draw(x, y, h_dir) emits for a
\* node lies inside [x, x + width) x [y, y + height): the origin of every
\* rect and every point visited by a path (move targets, the ends of runs
\* and arcs, the chevron strokes of long runs).
Containment ==
    \A i \in DOMAIN out :
        \A p \in elem_points(out[i].element) :
            in_box(p, out[i].x, out[i].y, width(drawn_node), height(drawn_node))

\* C2: entry-height invariant.  Every node the constructors hand out, at
\* any nesting, has 0 <= entry_height <= height.
EntryHeightInvariant ==
    \A n \in all_nodes :
        /\ 0 <= entry_height(n)
        /\ entry_height(n) <= height(n)

\* C3: Sequence geometry.  entry_height is the largest child entry height
\* (0 without children), height is the largest child entry height plus the
\* largest child height below entry, width is the sum of the child widths
\* plus 10 * (n - 1) when n > 1 and the plain sum otherwise; for
\* Debug(20,30,10) followed by Debug(30,50,70): width 90, height 50,
\* entry_height 30.
SequenceGeometry ==
    /\ \A n \in all_nodes :
          n.kind = "Sequence" =>
              LET c == n.children
                  k == Len(c)
                  E == {entry_height(c[i]) : i \in 1..k}
                  B == {height(c[i]) - entry_height(c[i]) : i \in 1..k}
                  W == sum_upto([i \in 1..k |-> width(c[i])], k)
              IN  /\ entry_height(n) = max_or_zero(E)
                  /\ height(n) = max_or_zero(E) + max_or_zero(B)
                  /\ width(n) = IF k > 1 THEN W + 10 * (k - 1) ELSE W
    /\ LET s == Sequence_new(<<Debug_new(20, 30, 10), Debug_new(30, 50, 70)>>)
       IN  width(s) = 90 /\ height(s) = 50 /\ entry_height(s) = 30

\* the sequence of the example has been built, and is as wide as stated
SequenceGeometryWitness ==
    /\ built = <<Sequence_new(<<Debug_new(20, 30, 10), Debug_new(30, 50, 70)>>)>>
    /\ width(built[1]) = 90

\* C4: Choice geometry (R = 12, spacing = 10).  entry_height is the first
\* child's; height is 0 without children, the child's height for one child,
\* and for n >= 2 first.entry + max(R, spacing + first.heightBelowEntry)
\* + the sum over the other children of max(R, c.entry) + c.heightBelowEntry
\* + spacing, - spacing; width is 4R + the largest child width for n >= 2
\* and the largest child width otherwise.
ChoiceGeometry ==
    \A n \in all_nodes :
        n.kind = "Choice" =>
            LET c == n.children
                k == Len(c)
                hbe(m) == height(m) - entry_height(m)
                padded(m) == max2(12, entry_height(m)) + hbe(m) + 10
                W == max_or_zero({width(c[i]) : i \in 1..k})
            IN  /\ k >= 1 => entry_height(n) = entry_height(c[1])
                /\ k = 0 => height(n) = 0
                /\ k = 1 => height(n) = height(c[1])
                /\ k >= 2 =>
                      height(n) = entry_height(c[1])
                          + max2(12, 10 + hbe(c[1]))
                          + sum_upto([i \in 1..(k - 1) |-> padded(c[i + 1])], k - 1)
                          - 10
                /\ width(n) = IF k >= 2 THEN 48 + W ELSE W

\* a choice of three, one alternative entering below the arc radius and one
\* above it
ChoiceGeometryWitness ==
    /\ Len(built) = 1
    /\ built[1].kind = "Choice"
    /\ Len(built[1].children) = 3
    /\ entry_height(built[1].children[2]) < 12
    /\ entry_height(built[1].children[3]) > 12

\* C5: Stack geometry (R = 12, spacing = 12, paddings 10 / 10).
\* entry_height is the first child's; height is the sum over adjacent pairs
\* (c, next) of c.entry + max(c.heightBelowEntry + spacing, 2R) + R
\* + max(0, R - next.entry), plus the last child's height; width is
\* leftPad + the largest child width + rightPad, leftPad = max(10, R) and
\* rightPad = max(10, 2R) with more than one child and both 0 otherwise,
\* plus one R exactly when some non-last child is at least as wide as the
\* last child.
StackGeometry ==
    \A n \in all_nodes :
        (n.kind = "Stack" /\ n.children # <<>>) =>
            LET c == n.children
                k == Len(c)
                hbe(m) == height(m) - entry_height(m)
                pair(i) == entry_height(c[i]) + max2(hbe(c[i]) + 12, 24) + 12
                               + max2(0, 12 - entry_height(c[i + 1]))
                W == max_or_zero({width(c[i]) : i \in 1..k})
                pads == IF k > 1 THEN max2(10, 12) + max2(10, 24) ELSE 0
                extra == IF \E i \in 1..(k - 1) : width(c[i]) >= width(c[k])
                         THEN 12
                         ELSE 0
            IN  /\ entry_height(n) = entry_height(c[1])
                /\ height(n) =
                      sum_upto([i \in 1..(k - 1) |-> pair(i)], k - 1) + height(c[k])
                /\ width(n) = pads + W + extra

\* a stack of three whose last child is no wider than an earlier one, and
\* that is one radius wider for it
StackGeometryWitness ==
    /\ Len(built) = 1
    /\ built[1].kind = "Stack"
    /\ Len(built[1].children) = 3
    /\ width(built[1].children[1]) >= width(built[1].children[3])
    /\ width(built[1]) = 36 + width(built[1].children[1]) + 12

\* C6: Optional geometry (R = 12).  entry_height = R + max(R, child.entry),
\* height = entry_height + child.heightBelowEntry, width = 4R + child.width.
OptionalGeometry ==
    \A n \in all_nodes :
        n.kind = "Optional" =>
            LET c == n.children[1]
            IN  /\ entry_height(n) = 12 + max2(12, entry_height(c))
                /\ height(n) =
                      12 + max2(12, entry_height(c)) + (height(c) - entry_height(c))
                /\ width(n) = 48 + width(c)

\* an optional whose child enters below the arc radius, and one whose child
\* enters above it, side by side
OptionalGeometryWitness ==
    /\ Len(built) = 2
    /\ built[1].kind = "Optional"
    /\ entry_height(built[1].children[1]) > 12
    /\ entry_height(built[1]) = 12 + entry_height(built[1].children[1])
    /\ built[2].kind = "Debug"
    /\ entry_height(built[2]) < 12

\* C7: Repeat geometry (R = 12, spacing = 10).  With heightBetweenEntries
\* = max(2R, inner.heightBelowEntry + spacing + repeat.entry): entry_height
\* = inner.entry, height = inner.entry + heightBetweenEntries
\* + repeat.heightBelowEntry, width = 2R + max(repeat.width, inner.width).
RepeatGeometry ==
    \A n \in all_nodes :
        n.kind = "Repeat" =>
            LET inner == n.children[1]
                repeat == n.children[2]
                hbe(m) == height(m) - entry_height(m)
                between == max2(24, hbe(inner) + 10 + entry_height(repeat))
            IN  /\ Repeat_height_between_entries(n) = between
                /\ entry_height(n) = entry_height(inner)
                /\ height(n) = entry_height(inner) + between + hbe(repeat)
                /\ width(n) = 24 + max2(width(repeat), width(inner))

\* a repeat whose entries are held two radii apart: Debug(20,30,10)
\* repeated over Debug(-1,0,5)
RepeatGeometryWitness ==
    /\ built = <<Repeat_new(Debug_new(20, 30, 10), Debug_new(-1, 0, 5))>>
    /\ Repeat_height_between_entries(built[1]) = 24
    /\ height(built[1]) = 45

\* C8: empty collections have zero size.  A Choice, Stack, Sequence,
\* VerticalGrid or HorizontalGrid without children has width 0, height 0
\* and entry_height 0.
EmptyCollectionZeroSize ==
    \A n \in all_nodes :
        (n.kind \in {"Choice", "Stack", "Sequence", "VerticalGrid",
                     "HorizontalGrid"}
            /\ Len(n.children) = 0) =>
            /\ width(n) = 0
            /\ height(n) = 0
            /\ entry_height(n) = 0

\* an empty stack has been made and drawn
EmptyCollectionZeroSizeWitness ==
    /\ Len(out) = 1
    /\ built = <<Stack_new(<<>>)>>

\* C9: single-child shortcut.  A Choice or a Stack holding exactly one child
\* has that child's width, height and entry_height, draws the child at its
\* own origin (x, y), and emits around it no arc and no run of non-zero
\* length.
SingleChildShortcut ==
    /\ \A n \in all_nodes :
          (n.kind \in {"Choice", "Stack"} /\ Len(n.children) = 1) =>
              /\ width(n) = width(n.children[1])
              /\ height(n) = height(n.children[1])
              /\ entry_height(n) = entry_height(n.children[1])
    /\ \A o \in DOMAIN out :
          (drawn_node.kind \in {"Choice", "Stack"}
              /\ Len(drawn_node.children) = 1) =>
              LET e == out[o].element.children
              IN  /\ Len(e) >= 1
                  /\ e[Len(e)] = draw(drawn_node.children[1],
                                      out[o].x, out[o].y, out[o].h_dir)
                  /\ \A j \in 1..(Len(e) - 1) : no_arc_no_run(e[j])

\* a stack holding one optional has been drawn away from the origin
SingleChildShortcutWitness ==
    /\ Len(out) = 1
    /\ out[1].x = 3
    /\ drawn_node.kind = "Stack"
    /\ Len(drawn_node.children) = 1
    /\ drawn_node.children[1].kind = "Optional"

\* C10: grid geometry (spacing = 12).  A VerticalGrid has entry_height 0,
\* the largest child width as width and, for n >= 1, the sum of the child
\* heights + 12 * (n - 1) as height; a HorizontalGrid has entry_height 0,
\* the largest child height as height and, for n >= 1, the sum of the child
\* widths + 12 * (n - 1) as width.  The i-th child (from 0) is drawn at the
\* sum of the earlier children's extents + 12 * i along the grid's axis and
\* at offset 0 across it, and the grid emits nothing but its children's
\* drawings: no connecting path.
GridGeometry ==
    /\ \A n \in all_nodes :
          LET c == n.children
              k == Len(c)
          IN  /\ n.kind = "VerticalGrid" =>
                    /\ entry_height(n) = 0
                    /\ width(n) = max_or_zero({width(c[i]) : i \in 1..k})
                    /\ k >= 1 =>
                          height(n) =
                              sum_upto([i \in 1..k |-> height(c[i])], k)
                                  + 12 * (k - 1)
              /\ n.kind = "HorizontalGrid" =>
                    /\ entry_height(n) = 0
                    /\ height(n) = max_or_zero({height(c[i]) : i \in 1..k})
                    /\ k >= 1 =>
                          width(n) =
                              sum_upto([i \in 1..k |-> width(c[i])], k)
                                  + 12 * (k - 1)
    /\ \A o \in DOMAIN out :
          LET c == drawn_node.children
              k == Len(c)
              hs == [i \in 1..k |-> height(c[i])]
              ws == [i \in 1..k |-> width(c[i])]
          IN  /\ drawn_node.kind = "VerticalGrid" =>
                    out[o].element.children =
                        [i \in 1..k |->
                            draw(c[i], out[o].x,
                                 out[o].y + sum_upto(hs, i - 1) + 12 * (i - 1),
                                 out[o].h_dir)]
              /\ drawn_node.kind = "HorizontalGrid" =>
                    out[o].element.children =
                        [i \in 1..k |->
                            draw(c[i],
                                 out[o].x + sum_upto(ws, i - 1) + 12 * (i - 1),
                                 out[o].y, out[o].h_dir)]

\* a vertical grid of three rows has been drawn, the last row two spacings
\* and two row heights down
GridGeometryWitness ==
    /\ Len(out) = 1
    /\ drawn_node.kind = "VerticalGrid"
    /\ Len(drawn_node.children) = 3
    /\ height(drawn_node.children[1]) > 0
    /\ out[1].element.children[3].attributes["y"] =
          out[1].y + height(drawn_node.children[1])
              + height(drawn_node.children[2]) + 24

\* C11: LabeledBox margins collapse.  When label and inner both have width
\* 0 and height 0 the box has width, height and entry_height 0; otherwise
\* it has padding 8 on all four sides and spacing s between label and
\* inner, s = 8 exactly when the label's height is > 0 and 0 otherwise:
\* width = 16 + max(inner.width, label.width), height = 16 + label.height
\* + s + inner.height, entry_height = 8 + label.height + s + inner.entry.
LabeledBoxMargins ==
    \A n \in all_nodes :
        n.kind = "LabeledBox" =>
            LET inner == n.children[1]
                label == n.children[2]
                s == IF height(label) > 0 THEN 8 ELSE 0
            IN  IF /\ width(inner) = 0 /\ height(inner) = 0
                   /\ width(label) = 0 /\ height(label) = 0
                THEN width(n) = 0 /\ height(n) = 0 /\ entry_height(n) = 0
                ELSE /\ width(n) = 16 + max2(width(inner), width(label))
                     /\ height(n) = 16 + height(label) + s + height(inner)
                     /\ entry_height(n) =
                           8 + height(label) + s + entry_height(inner)

\* C12: Diagram geometry.  A Diagram has entry_height 0, width = root.width
\* + 20 and height = root.height + 20; draw(x, y, dir) draws the root at
\* (x + 10, y + 10) and sets the viewBox attribute to 0 0 <width> <height>
\* with those values.
DiagramGeometry ==
    /\ \A n \in all_nodes :
          n.kind = "Diagram" =>
              /\ entry_height(n) = 0
              /\ width(n) = width(n.children[1]) + 20
              /\ height(n) = height(n.children[1]) + 20
    /\ \A o \in DOMAIN out :
          drawn_node.kind = "Diagram" =>
              LET root == drawn_node.children[1]
                  e == out[o].element
              IN  /\ e.name = "svg"
                  /\ e.attributes["viewBox"] =
                        <<0, 0, width(root) + 20, height(root) + 20>>
                  /\ e.children =
                        <<draw(root, out[o].x + 10, out[o].y + 10, out[o].h_dir)>>

\* a diagram around an optional has been drawn away from the origin
DiagramGeometryWitness ==
    /\ Len(out) = 1
    /\ out[1].x = 3
    /\ drawn_node.kind = "Diagram"
    /\ drawn_node.children[1].kind = "Optional"
    /\ out[1].element.attributes["viewBox"][3] > 20

\* C13: Debug construction.  Debug::new(entry_height, height, width) panics
\* and produces no node whenever entry_height >= height, and for every
\* other input returns a leaf whose entry_height(), height() and width() are
\* the supplied values.
DebugConstruction ==
    [][(call' # <<>> /\ call'[1].name = "Debug::new" /\ out' = <<>>) =>
           LET c == call'[1]
               leaf == built'[Len(built')]
           IN  /\ c.panicked <=> c.args[1] >= c.args[2]
               /\ c.panicked => built' = built
               /\ ~c.panicked =>
                     /\ Len(built') = Len(built) + 1
                     /\ SubSeq(built', 1, Len(built)) = built
                     /\ leaf.kind = "Debug"
                     /\ entry_height(leaf) = c.args[1]
                     /\ height(leaf) = c.args[2]
                     /\ width(leaf) = c.args[3]]_vars

\* Debug::new has panicked on an entry height equal to the height, next to
\* a leaf it accepted
DebugConstructionWitness ==
    /\ call # <<>>
    /\ call[1].name = "Debug::new"
    /\ call[1].panicked
    /\ call[1].args[1] = call[1].args[2]
    /\ Len(built) = 1
    /\ built[1].kind = "Debug"
    /\ entry_height(built[1]) < 0

\* the latest call on the builder was a run, horizontal or vertical
run_called == call # <<>> /\ call[1].name \in {"horizontal", "vertical"}

\* the commands the latest call added to the path
added == SubSeq(path[1].text, call[1].before + 1, Len(path[1].text))

\* the latest call added chevron strokes
has_strokes == \E i \in DOMAIN added : added[i][1] = "l"

\* C14: Arrow threshold.  horizontal(h) and vertical(h) append chevron
\* strokes if and only if h > 50 or h < -50, for either direction flag: a
\* run of 51 or -51 gets a chevron, a run of 50 or -50 and every shorter run
\* gets none.
ArrowThreshold ==
    run_called =>
        LET h == call[1].args[1]
        IN  /\ has_strokes <=> (h > 50 \/ h < -50)
            /\ ~has_strokes =>
                  added = <<(<<IF call[1].name = "horizontal" THEN "h" ELSE "v",
                               h>>)>>

\* a vertical run of -51 has got its chevron on a path written right to
\* left that already holds a horizontal run of 50 without one
ArrowThresholdWitness ==
    /\ run_called
    /\ call[1].name = "vertical"
    /\ call[1].args[1] = -51
    /\ has_strokes
    /\ path[1].h_dir = "RTL"
    /\ SubSeq(path[1].text, 1, call[1].before) = <<(<<"h", 50>>)>>

\* a run long enough for a chevron
long_run(c) == c[1] \in {"h", "v"} /\ (c[2] > 50 \/ c[2] < -50)

\* command i of the path data d is one of the five a long run's chevron takes
in_chevron(d, i) == \E j \in 1..(i - 1) : i - j <= 5 /\ long_run(d[j])

\* two path data that agree outside the chevrons, pen included
same_pen(d, g) ==
    /\ Len(d) = Len(g)
    /\ \A i \in DOMAIN d :
          /\ in_chevron(d, i) <=> in_chevron(g, i)
          /\ ~in_chevron(d, i) => (d[i] = g[i] /\ pen_at(d, i) = pen_at(g, i))

\* every chevron of the path data d leaves the pen at the end of its run
pen_returns(d) ==
    \A j \in DOMAIN d :
        long_run(d[j]) => (j + 5 <= Len(d) /\ pen_at(d, j + 5) = pen_at(d, j))

RECURSIVE same_geometry(_, _)
\* two element trees of one shape that differ in the chevrons of paths only
same_geometry(e, f) ==
    /\ e.name = f.name
    /\ e.text = f.text
    /\ DOMAIN e.attributes = DOMAIN f.attributes
    /\ \A k \in DOMAIN e.attributes :
          IF e.name = "path" /\ k = "d"
          THEN /\ same_pen(e.attributes[k], f.attributes[k])
               /\ pen_returns(e.attributes[k])
               /\ pen_returns(f.attributes[k])
          ELSE e.attributes[k] = f.attributes[k]
    /\ Len(e.children) = Len(f.children)
    /\ \A i \in DOMAIN e.children : same_geometry(e.children[i], f.children[i])
    /\ Len(e.siblings) = Len(f.siblings)
    /\ \A i \in DOMAIN e.siblings : same_geometry(e.siblings[i], f.siblings[i])

\* the drawing of the drawn node at the same origin under the other flag
redrawn ==
    draw(drawn_node, out[1].x, out[1].y,
         IF out[1].h_dir = "LTR" THEN "RTL" ELSE "LTR")

\* C15: the direction flag never affects geometry.  A node's entry height,
\* height and width are fields computed without the flag; drawn at one
\* origin under LTR and under RTL, a tree gives the same elements, rects and
\* child origins, and the same commands and pen positions outside the
\* chevron strokes, each of which returns the pen to the end of its run (the
\* net displacement of horizontal(h) is (h, 0), of vertical(h) is (0, h)).
DirectionFreeGeometry ==
    /\ out # <<>> => same_geometry(out[1].element, redrawn)
    /\ \A h \in RunLengths, d \in {"LTR", "RTL"} :
          /\ pen_at(horizontal(PathData_new(d), h).text,
                    Len(horizontal(PathData_new(d), h).text)) = <<h, 0>>
          /\ pen_at(vertical(PathData_new(d), h).text,
                    Len(vertical(PathData_new(d), h).text)) = <<0, h>>

\* a loop has been drawn whose two drawings differ, in chevrons only
DirectionFreeGeometryWitness ==
    /\ out # <<>>
    /\ drawn_node.kind = "Repeat"
    /\ out[1].element # redrawn
    /\ same_geometry(out[1].element, redrawn)

RECURSIVE inside(_)
RECURSIVE inside_each(_)
\* the elements below an element, in the order they are written
inside(e) == inside_each(e.children)

inside_each(es) ==
    IF es = <<>> THEN <<>>
    ELSE <<Head(es)>> \o inside(Head(es)) \o inside_each(Tail(es))

RECURSIVE first_point(_)
RECURSIVE first_point_in(_)
\* the first point an element tree draws, <<>> when it draws none
first_point(e) ==
    IF e.name = "rect" THEN <<(<<e.attributes["x"], e.attributes["y"]>>)>>
    ELSE IF e.name = "path" /\ e.attributes["d"] # <<>>
    THEN <<pen_at(e.attributes["d"], 1)>>
    ELSE first_point_in(e.children)

first_point_in(es) ==
    IF es = <<>> THEN <<>>
    ELSE IF first_point(Head(es)) # <<>> THEN first_point(Head(es))
    ELSE first_point_in(Tail(es))

\* where the drawing f of a node has its origin, if f is one: as far from
\* f's first point as (0, 0) is from b, the first point of the node's
\* drawing at (0, 0)
origins_of(f, b) ==
    LET a == first_point(f)
    IN  IF a = <<>> \/ b = <<>> THEN {}
        ELSE {<<a[1][1] - b[1][1], a[1][2] - b[1][2]>>}

\* the direction opposite to d
opposite(d) == IF d = "LTR" THEN "RTL" ELSE "LTR"

\* the direction below a number of Repeats entered by their repeat child
after_flips(d, flips) == IF flips % 2 = 1 THEN opposite(d) ELSE d

RECURSIVE hands_on(_, _, _, _)
\* the drawing e of n, n being below flips Repeats in the repeat role in a
\* tree drawn with d, holds for every child of n the child's drawing in the
\* direction the count of such Repeats gives, and so on down.  (What is
\* drawn is bound by a quantifier over a singleton, to be drawn once.)
hands_on(n, e, d, flips) ==
    \A parts \in {inside(e)} :
        \A i \in DOMAIN n.children :
            LET c == n.children[i]
                below_flips ==
                    IF n.kind = "Repeat" /\ i = 2 THEN flips + 1 ELSE flips
            IN  \E at_zero \in {draw(c, 0, 0, after_flips(d, below_flips))} :
                \E b \in {first_point(at_zero)} :
                \E j \in DOMAIN parts :
                    /\ parts[j].name = at_zero.name
                    /\ Len(parts[j].children) = Len(at_zero.children)
                    /\ \E o \in origins_of(parts[j], b) :
                          parts[j] = draw(c, o[1], o[2],
                                          after_flips(d, below_flips))
                    /\ hands_on(c, parts[j], d, below_flips)

\* the direction the latest drawing started with
started_with == IF call[1].name = "write" THEN "LTR" ELSE out[1].h_dir

\* C16: direction propagation.  Display/write of a Diagram start the draw
\* pass with LTR; every combinator hands the direction it received to its
\* children unchanged, except Repeat, which hands the inverted direction to
\* its repeat child; so a node is drawn RTL exactly when an odd number of
\* Repeats hold it or an ancestor of it as their repeat child; and invert
\* applied twice gives the direction back.
DirectionPropagation ==
    /\ out # <<>> =>
          /\ out[1].element =
                 draw(drawn_node, out[1].x, out[1].y, started_with)
          /\ out[1].element #
                 draw(drawn_node, out[1].x, out[1].y, opposite(started_with))
          /\ hands_on(drawn_node, out[1].element, started_with, 0)
    /\ \A d \in {"LTR", "RTL"} :
          /\ HDir_invert(d) = opposite(d)
          /\ HDir_invert(HDir_invert(d)) = d

\* a loop whose repeat child is a loop again has been drawn: a probe lies
\* below two Repeats in the repeat role
DirectionPropagationWitness ==
    /\ out # <<>>
    /\ drawn_node.kind = "Repeat"
    /\ drawn_node.children[2].kind = "Repeat"
    /\ is_probe(drawn_node.children[2].children[2])
    /\ hands_on(drawn_node, out[1].element, started_with, 0)

\* where in the path the strokes of the latest call are, in order
stroke_indices ==
    SelectSeq([i \in 1..Len(path[1].text) |-> i],
              LAMBDA i : i > call[1].before /\ path[1].text[i][1] = "l")

\* the lesser and the greater of two integers
lesser(a, b) == IF a <= b THEN a ELSE b
greater(a, b) == IF a >= b THEN a ELSE b

\* C17: chevron orientation.  For every run with |h| > 50 the chevron is two
\* strokes that meet in a tip on the run's line, with a wing 5 units to each
\* side of the line.  Under LTR a horizontal chevron points the way the pen
\* travels (tip right of the wings for h > 50, left of them for h < -50),
\* under RTL it is mirrored; a vertical chevron points the way the pen
\* travels (down for h > 50, up for h < -50) whatever the flag.  Tip and
\* wings lie within the run's extent.
ChevronOrientation ==
    (run_called /\ (call[1].args[1] > 50 \/ call[1].args[1] < -50)) =>
        LET d == path[1].text
            h == call[1].args[1]
            ltr == path[1].h_dir = "LTR"
            start == pen_at(d, call[1].before)
            ix == stroke_indices
            tip == pen_at(d, ix[1] - 1)
            wing1 == pen_at(d, ix[1])
            wing2 == pen_at(d, ix[2] - 1)
            \* 1 along the run, 2 across it
            along == IF call[1].name = "horizontal" THEN 1 ELSE 2
            across == 3 - along
            forward == (h > 50) <=> (tip[along] > wing1[along])
        IN  /\ Len(ix) = 2
            /\ pen_at(d, ix[2]) = tip
            /\ tip[across] = start[across]
            /\ wing1[along] = wing2[along]
            /\ tip[along] # wing1[along]
            /\ {wing1[across], wing2[across]} =
                   {start[across] - 5, start[across] + 5}
            /\ call[1].name = "horizontal" => (forward <=> ltr)
            /\ call[1].name = "vertical" => forward
            /\ \A q \in {tip, wing1, wing2} :
                  /\ lesser(start[along], start[along] + h) <= q[along]
                  /\ q[along] <= greater(start[along], start[along] + h)

\* a horizontal run of -51 from (3, 7) has got its chevron on a path written
\* right to left: the tip is right of the wings, against the pen's travel
ChevronOrientationWitness ==
    /\ run_called
    /\ call[1].name = "horizontal"
    /\ call[1].args[1] = -51
    /\ path[1].h_dir = "RTL"
    /\ Len(stroke_indices) = 2
    /\ pen_at(path[1].text, call[1].before) = <<3, 7>>
    /\ pen_at(path[1].text, stroke_indices[1] - 1)[1] >
           pen_at(path[1].text, stroke_indices[1])[1]

\* to_string was the latest call
serialized == call # <<>> /\ call[1].name = "to_string"

RECURSIVE joined(_)
\* the sequences of a sequence, one behind the other
joined(ss) == IF ss = <<>> THEN <<>> ELSE Head(ss) \o joined(Tail(ss))

\* the elements es serialized one after the other
each_serialized(es, order) ==
    joined([i \in DOMAIN es |-> Element_fmt(es[i], order)])

\* C18: Element serialization rule.  An element with no text and no children
\* serializes as one self-closing tag; any other element as its open tag,
\* then its text, then its children in insertion order, each serialized
\* recursively, then its close tag; in both cases the serializations of its
\* siblings follow, in insertion order.
SerializationRule ==
    serialized =>
        LET e == top_elem
            o == call[1].output
            n == Cardinality(DOMAIN e.attributes)
            rest == SubSeq(o, n + 3, Len(o))
        IN  /\ Len(o) >= n + 2
            /\ o[1] = <<"<", e.name>>
            /\ \A i \in 2..(n + 1) : o[i][1] = " "
            /\ \E order \in Orders :
                  IF e.text = <<>> /\ e.children = <<>>
                  THEN /\ o[n + 2] = <<"/>">>
                       /\ rest = each_serialized(e.siblings, order)
                  ELSE /\ o[n + 2] = <<">">>
                       /\ rest =
                            (IF e.text = <<>> THEN <<>>
                             ELSE <<(<<"text", e.text[1]>>)>>)
                            \o each_serialized(e.children, order)
                            \o <<(<<"</", e.name>>)>>
                            \o each_serialized(e.siblings, order)

\* an element with a text, a child and a sibling has been serialized
SerializationRuleWitness ==
    /\ serialized
    /\ top_elem.text # <<>>
    /\ Len(top_elem.children) = 1
    /\ Len(top_elem.siblings) = 1
    /\ top_elem.children[1].name # top_elem.name
    /\ call[1].output[Len(call[1].output)] = <<"/>">>

\* C19: deterministic serialization.  Serializing the same tree again gives
\* the same output, whatever order the map hands the attributes out in; in
\* every tag the attribute keys ascend strictly, so each key is there once;
\* and a key that set or set_all has just written carries the value written.
DeterministicSerialization ==
    /\ serialized =>
          LET o == call[1].output
          IN  /\ \A order \in Orders : Element_fmt(top_elem, order) = o
              /\ \A i \in 1..(Len(o) - 1) :
                    (o[i][1] = " " /\ o[i + 1][1] = " ") =>
                        key_lt(o[i][2], o[i + 1][2])
    /\ (call # <<>> /\ call[1].name \in {"set", "set_all"}) =>
          \A order \in Orders :
              LET o == Element_fmt(top_elem, order)
                  n == Cardinality(DOMAIN top_elem.attributes)
                  written ==
                      IF call[1].name = "set" THEN {call[1].args[1]}
                      ELSE ElemKeys
                  v == call[1].args[Len(call[1].args)]
              IN  \A k \in written :
                      /\ Cardinality({i \in 2..(n + 1) : o[i][2] = k}) = 1
                      /\ \A i \in 2..(n + 1) : o[i][2] = k => o[i][3] = v

\* an element that holds two attributes of different values, and a child,
\* has been serialized
DeterministicSerializationWitness ==
    /\ serialized
    /\ DOMAIN top_elem.attributes = ElemKeys
    /\ top_elem.attributes["class"] # top_elem.attributes["x"]
    /\ Len(top_elem.children) = 1
    /\ call[1].output[2] = <<" ", "class", top_elem.attributes["class"]>>

\* what encode_minimal is to write for a character
claimed_minimal(c) ==
    CASE c = "\"" -> <<"&", "q", "u", "o", "t", ";">>
      [] c = "&" -> <<"&", "a", "m", "p", ";">>
      [] c = "<" -> <<"&", "l", "t", ";">>
      [] c = ">" -> <<"&", "g", "t", ";">>
      [] c = "'" -> <<"&", "#", "x", "2", "7", ";">>
      [] OTHER -> <<c>>

\* what encode_attribute is to write for a character: ASCII letters and
\* digits and the characters above U+00FF are copied
claimed_attribute(c) ==
    CASE c = "\"" -> <<"&", "q", "u", "o", "t", ";">>
      [] c = "&" -> <<"&", "a", "m", "p", ";">>
      [] c = "<" -> <<"&", "l", "t", ";">>
      [] c = ">" -> <<"&", "g", "t", ";">>
      [] c = "'" -> <<"&", "#", "x", "2", "7", ";">>
      [] c = " " -> <<"&", "#", "x", "2", "0", ";">>
      [] c = "U+00E5" -> <<"&", "#", "x", "E", "5", ";">>
      [] c \in {"a", "7", "U+0100"} -> <<c>>

\* C20: escaping is an order-preserving character-wise substitution.
\* encode_minimal replaces the five characters " & < > ' by &quot; &amp;
\* &lt; &gt; &#x27; and copies every other character, so Foo<bar> becomes
\* Foo&lt;bar&gt;, and Element::text stores its text in this form;
\* encode_attribute replaces every character up to U+00FF that is no ASCII
\* letter or digit by its entity and copies the others; each returns its
\* input borrowed exactly when it replaced no character.
Escaping ==
    /\ (call # <<>> /\ call[1].name = "encode_minimal") =>
          LET inp == call[1].args
              r == call[1].result
          IN  /\ r.cow \in {"Borrowed", "Owned"}
              /\ r.str = joined([i \in DOMAIN inp |-> claimed_minimal(inp[i])])
              /\ r.cow = "Borrowed" <=>
                     \A i \in DOMAIN inp : claimed_minimal(inp[i]) = <<inp[i]>>
    /\ (call # <<>> /\ call[1].name = "text") =>
          LET inp == call[1].args
          IN  top_elem.text =
                  <<joined([i \in DOMAIN inp |-> claimed_minimal(inp[i])])>>
    /\ (call # <<>> /\ call[1].name = "encode_attribute") =>
          LET inp == call[1].args
              r == call[1].result
          IN  /\ r.cow \in {"Borrowed", "Owned"}
              /\ r.str =
                     joined([i \in DOMAIN inp |-> claimed_attribute(inp[i])])
              /\ r.cow = "Borrowed" <=>
                     \A i \in DOMAIN inp : claimed_attribute(inp[i]) = <<inp[i]>>
    /\ into_owned(encode_minimal(LabelFoo)) =
           <<"F", "o", "o", "&", "l", "t", ";", "b", "a", "r", "&", "g", "t", ";">>

\* encode_attribute has returned an owned string for a letter, a character
\* of two bytes that it replaced, and one above U+00FF that it copied
EscapingWitness ==
    /\ call # <<>>
    /\ call[1].name = "encode_attribute"
    /\ call[1].args = <<"a", "U+00E5", "U+0100">>
    /\ call[1].result.cow = "Owned"
    /\ call[1].result.str = <<"a", "&", "#", "x", "E", "5", ";", "U+0100">>

\* the latest call was draw: out holds its arguments and the element
drew == IF out = <<>> THEN FALSE ELSE "element" \in DOMAIN out[1]

\* the node types that are handed a class name by their constructor
ClassKinds ==
    {"Terminal", "NonTerminal", "Optional", "Choice", "Stack", "Repeat",
     "LabeledBox", "Link", "VerticalGrid", "HorizontalGrid", "Comment",
     "Debug"}

\* the fixed class name of a node type
class_name(kind) ==
    CASE kind = "Terminal" -> "terminal"
      [] kind = "NonTerminal" -> "nonterminal"
      [] kind = "Optional" -> "optional"
      [] kind = "Choice" -> "choice"
      [] kind = "Stack" -> "stack"
      [] kind = "Repeat" -> "repeat"
      [] kind = "LabeledBox" -> "labeledbox"
      [] kind = "Link" -> "link"
      [] kind = "VerticalGrid" -> "verticalgrid"
      [] kind = "HorizontalGrid" -> "horizontalgrid"
      [] kind = "Comment" -> "comment"
      [] kind = "Debug" -> "debug"

\* where among the children of the main element of n the drawing of the
\* i-th child of n is added
part_of(n, i) ==
    CASE n.kind \in {"VerticalGrid", "HorizontalGrid", "Sequence"} -> i
      [] n.kind = "Link" -> 1
      [] n.kind = "Diagram" -> Len(n.extra_elements) + 1
      [] n.kind = "Optional" -> 2
      [] n.kind = "Repeat" -> IF i = 1 THEN 3 ELSE 2
      [] n.kind = "LabeledBox" -> IF i = 1 THEN 4 ELSE 3
      [] n.kind = "Stack" -> IF Len(n.children) > 1 THEN 1 + 2 * i ELSE 2
      [] n.kind = "Choice" ->
            IF i = 1 THEN 2 ELSE Len(n.children) + 2 * i - 1

RECURSIVE classed(_, _)
\* e being the main element of n: n and the nodes below it have the class
\* names of their types on their main elements
classed(n, e) ==
    /\ n.kind \in ClassKinds =>
          IF "class" \in DOMAIN e.attributes
          THEN e.attributes["class"] = class_name(n.kind)
          ELSE FALSE
    /\ \A i \in DOMAIN n.children :
          classed(n.children[i], e.children[part_of(n, i)])

\* C21: class names.  Every drawn Terminal, NonTerminal, Optional, Choice,
\* Stack, Repeat, LabeledBox, Link, VerticalGrid, HorizontalGrid, Comment
\* and Debug carries the fixed class name of its type as the class attribute
\* of its main element, however the node was constructed (new, from_iter or
\* Default, followed by any pushes); no caller of the model writes the class
\* attribute through attr().
ClassNames == drew => classed(drawn_node, out[1].element)

\* the child list the collection at built[1] should hold by now
final_list == call[1].initial \o call[1].pushed

\* a node freshly constructed from that list
fresh == from_iter(built[1].kind, final_list)

\* the latest call was a query: out holds its name and the value returned
queried == IF out = <<>> THEN FALSE ELSE "value" \in DOMAIN out[1]

\* C22: builder pushes and fresh aggregates.  After any sequence of pushes
\* on a Sequence, Choice, Stack, VerticalGrid or HorizontalGrid started from
\* new(children), from_iter or default(), the child list is the initial
\* children followed by the pushed children in push order, into_inner
\* returns exactly that list, and every width / height / entry_height query
\* equals the value of a node freshly constructed from that final list, not
\* of an earlier list; this is so after a query or a draw as well, which
\* change nothing.
BuilderPushes ==
    /\ collecting =>
          /\ built[1].children = final_list
          /\ into_inner(built[1]) = final_list
          /\ entry_height(built[1]) = entry_height(fresh)
          /\ height(built[1]) = height(fresh)
          /\ width(built[1]) = width(fresh)
          /\ queried =>
                out[1].value =
                    CASE out[1].name = "entry_height" -> entry_height(fresh)
                      [] out[1].name = "height" -> height(fresh)
                      [] out[1].name = "width" -> width(fresh)
          /\ drew =>
                out[1].element =
                    draw(built[1], out[1].x, out[1].y, out[1].h_dir)
    /\ (IF call = <<>> THEN FALSE ELSE call[1].name = "into_inner") =>
          call[1].returned = final_list

\* a collection started with one child and pushed another has been asked
\* its width, which is not the width it had before the push
BuilderPushesWitness ==
    /\ collecting
    /\ queried
    /\ out[1].name = "width"
    /\ Len(call[1].initial) = 1
    /\ Len(call[1].pushed) = 1
    /\ call[1].initial # call[1].pushed
    /\ out[1].value # width(from_iter(built[1].kind, call[1].initial))

\* where the path of an element starts and where it ends
pen_start(e) == pen_at(e.attributes["d"], 1)
pen_end(e) == pen_at(e.attributes["d"], Len(e.attributes["d"]))

\* C23: Sequence drawing.  Child i is drawn at x-offset the sum over j < i
\* of (width_j + spacing) and y-offset (sequence entry_height - child_i
\* entry_height), so every child's entry line lies on the single line
\* y + entry_height; exactly max(n - 1, 0) connectors are emitted, and
\* connector i is a horizontal run of length spacing on that line which
\* starts at child i's right edge and ends at child i + 1's left edge.
SequenceDrawing ==
    (drew /\ drawn_node.kind = "Sequence") =>
        LET n == drawn_node
            e == out[1].element
            len == Len(n.children)
            line == out[1].y + entry_height(n)
            cx(i) == out[1].x
                     + sum_upto([j \in DOMAIN n.children |->
                                    width(n.children[j]) + Sequence_spacing],
                                i - 1)
        IN  /\ Len(e.children) = len + max2(len - 1, 0)
            /\ \A i \in 1..len :
                  LET c == n.children[i]
                  IN  /\ e.children[i] =
                            draw(c, cx(i), line - entry_height(c), out[1].h_dir)
                      /\ c.kind = "Debug" =>
                            /\ e.children[i].attributes["x"] = cx(i)
                            /\ e.children[i].attributes["y"] + entry_height(c)
                                  = line
            /\ \A i \in 1..(len - 1) :
                  LET p == e.children[len + i]
                  IN  /\ p.name = "path"
                      /\ p.attributes["d"] =
                            <<(<<"M", cx(i) + width(n.children[i]), line>>),
                              (<<"h", Sequence_spacing>>)>>
                      /\ pen_start(p) = <<cx(i) + width(n.children[i]), line>>
                      /\ pen_end(p) = <<cx(i + 1), line>>

\* a Sequence of three children has been drawn, the first two of different
\* entry heights, with its two connectors
SequenceDrawingWitness ==
    /\ drew
    /\ drawn_node.kind = "Sequence"
    /\ Len(drawn_node.children) = 3
    /\ entry_height(drawn_node.children[1])
          # entry_height(drawn_node.children[2])
    /\ Len(out[1].element.children) = 5
    /\ out[1].element.children[5].name = "path"

\* the i-th command of the path data d belongs to a chevron: it is a stroke
\* or a pen move next to a stroke
is_chevron(d, i) ==
    IF d[i][1] = "l" THEN TRUE
    ELSE IF d[i][1] # "m" THEN FALSE
    ELSE \/ (IF i > 1 THEN d[i - 1][1] = "l" ELSE FALSE)
         \/ (IF i < Len(d) THEN d[i + 1][1] = "l" ELSE FALSE)

\* where the pen of a path element is after each of its commands, in order,
\* those of the chevrons left out
marks(e) ==
    LET d == e.attributes["d"]
        idx == SelectSeq([i \in 1..Len(d) |-> i],
                         LAMBDA i : ~is_chevron(d, i))
    IN  [k \in DOMAIN idx |-> pen_at(d, idx[k])]

\* every child has 0 <= entry_height <= height and width >= 0
plain_children(n) ==
    \A i \in DOMAIN n.children :
        /\ 0 <= entry_height(n.children[i])
        /\ entry_height(n.children[i]) <= height(n.children[i])
        /\ width(n.children[i]) >= 0

\* C24: Choice rails and alternatives (n >= 2 children, children with
\* 0 <= entry <= height).  The left rail at x + R and the right rail at
\* x + width - R are joined by arcs to (x, y + entry) and
\* (x + width, y + entry) and run without gap down to the last alternative;
\* every alternative k >= 1 is drawn at x + 2R with its top at
\* running_y + max(0, R - entry_k), its entry arc from the left rail ends
\* exactly at the alternative's left edge on the alternative's own entry
\* line, and its exit path starts at the alternative's right edge on that
\* line, runs to x + 2R + maxChildWidth and arcs into the right rail.
ChoiceDrawing ==
    (IF drew
     THEN /\ drawn_node.kind = "Choice"
          /\ Len(drawn_node.children) >= 2
          /\ plain_children(drawn_node)
     ELSE FALSE) =>
        LET n == drawn_node
            e == out[1].element
            x == out[1].x
            len == Len(n.children)
            R == ARC_RADIUS
            line == out[1].y + entry_height(n)
            left == x + R
            right == x + width(n) - R
            widest == max_or_zero({width(n.children[i]) : i \in 1..len})
            \* the y at which the row of the alternative c >= 2 starts
            running_y(c) ==
                line + max2(R, Choice_spacing + height_below_entry(n.children[1]))
                + sum_upto([j \in 1..len |->
                       IF j = 1 THEN 0
                       ELSE max2(R, entry_height(n.children[j]))
                            + height_below_entry(n.children[j])
                            + Choice_spacing], c - 1)
            down == marks(e.children[3])
        IN  /\ Len(e.children) = 3 * len - 1
            \* the arcs that join the rails to the entry line
            /\ down = <<(<<x, line>>), (<<left, line + R>>),
                        (<<left, running_y(2)>>), (<<right, running_y(2)>>),
                        (<<right, line + R>>), (<<x + width(n), line>>)>>
            /\ \A c \in 2..len :
                  LET child == n.children[c]
                      top_c == running_y(c) + max2(0, R - entry_height(child))
                      own == top_c + entry_height(child)
                      arcs == marks(e.children[len + 2 * c - 2])
                  IN  /\ e.children[len + 2 * c - 1] =
                            draw(child, x + 2 * R, top_c, out[1].h_dir)
                      \* from the rail, where the rail above ended
                      /\ arcs[1] = <<left, running_y(c)>>
                      /\ arcs[2][1] = left
                      \* the entry arc ends at the left edge, on the entry line
                      /\ arcs[3] = <<x + 2 * R, own>>
                      /\ arcs[3] = <<arcs[2][1] + R, arcs[2][2] + R>>
                      \* the exit path
                      /\ arcs[4] = <<x + 2 * R + width(child), own>>
                      /\ arcs[5] = <<x + 2 * R + widest, own>>
                      /\ arcs[6] = <<right, arcs[2][2]>>
                      /\ arcs[7] = <<right, running_y(c)>>
                      /\ Len(arcs) = 7
                      \* the rail beside an alternative that is not the last
                      /\ c < len =>
                            marks(e.children[c + 2]) =
                                <<arcs[2], (<<left, running_y(c + 1)>>),
                                  (<<right, running_y(c + 1)>>), arcs[6]>>

\* a Choice of three has been drawn whose second alternative is narrower
\* than the widest and has its entry line more than R below its top
ChoiceDrawingWitness ==
    /\ drew
    /\ drawn_node.kind = "Choice"
    /\ Len(drawn_node.children) = 3
    /\ plain_children(drawn_node)
    /\ entry_height(drawn_node.children[2]) > ARC_RADIUS
    /\ width(drawn_node.children[2]) < width(drawn_node.children[1])
    /\ Len(marks(out[1].element.children[4])) = 4

\* the mark a path ends at
last_mark(e) == marks(e)[Len(marks(e))]

\* the y of the top of the i-th child of the Stack n drawn at y: each child
\* lies the padded height of it and its successor below the one before
Stack_top(n, y, i) ==
    y + sum_upto([j \in 1..(Len(n.children) - 1) |->
                     Stack_padded_height(n.children[j], n.children[j + 1])],
                 i - 1)

\* C25: Stack connectors land on entry lines (n >= 2 children, children
\* with 0 <= entry <= height).  The connector that leaves child i's right
\* edge on child i's entry line ends exactly at child i + 1's left edge
\* (x + leftPadding) on child i + 1's entry line, where child i + 1 is drawn
\* paddedHeight(child i, child i + 1) below child i; and the return
\* connector that leaves the last child's right edge on its entry line ends
\* exactly at (x + width, y + entry_height) of the Stack.
StackConnectors ==
    (IF drew
     THEN /\ drawn_node.kind = "Stack"
          /\ Len(drawn_node.children) >= 2
          /\ plain_children(drawn_node)
     ELSE FALSE) =>
        LET n == drawn_node
            e == out[1].element
            len == Len(n.children)
            edge == out[1].x + Stack_left_padding(n)
            entry_line(i) ==
                Stack_top(n, out[1].y, i) + entry_height(n.children[i])
        IN  /\ Len(e.children) = 2 * len + 1
            /\ \A i \in 1..len :
                  e.children[2 * i + 1] =
                      draw(n.children[i], edge, Stack_top(n, out[1].y, i),
                           out[1].h_dir)
            /\ \A i \in 1..(len - 1) :
                  /\ marks(e.children[2 * i])[1] =
                        <<edge + width(n.children[i]), entry_line(i)>>
                  /\ last_mark(e.children[2 * i]) =
                        <<edge, entry_line(i + 1)>>
            /\ marks(e.children[2 * len])[1] =
                  <<edge + width(n.children[len]), entry_line(len)>>
            /\ last_mark(e.children[2 * len]) =
                  <<out[1].x + width(n), out[1].y + entry_height(n)>>

\* a Stack of three has been drawn whose second child has its entry line
\* more than R below its top, with its two connectors and the return
StackConnectorsWitness ==
    /\ drew
    /\ drawn_node.kind = "Stack"
    /\ Len(drawn_node.children) = 3
    /\ plain_children(drawn_node)
    /\ entry_height(drawn_node.children[2]) > ARC_RADIUS
    /\ out[1].element.children[6].name = "path"
    /\ last_mark(out[1].element.children[6])[1] = out[1].x + width(drawn_node)

\* the commands of a path element in order, those of the chevrons left out
commands(e) ==
    LET d == e.attributes["d"]
        idx == SelectSeq([i \in 1..Len(d) |-> i],
                         LAMBDA i : ~is_chevron(d, i))
    IN  [k \in DOMAIN idx |-> d[idx[k]]]

\* C26: the Stack return connector never overlaps the downward connectors.
\* For every Stack with n >= 2 children of non-negative width, the vertical
\* part of the return connector (at x + width - R) lies strictly to the
\* right of the vertical part of every downward connector (at
\* x + leftPadding + child.width + R for each non-last child), the
\* horizontal lead of the return connector has non-negative length, and its
\* vertical part runs upwards (non-positive length argument).
StackReturnConnector ==
    (IF drew
     THEN /\ drawn_node.kind = "Stack"
          /\ Len(drawn_node.children) >= 2
          /\ \A i \in DOMAIN drawn_node.children :
                width(drawn_node.children[i]) >= 0
     ELSE FALSE) =>
        LET n == drawn_node
            e == out[1].element
            len == Len(n.children)
            back == e.children[2 * len]
            rising == out[1].x + width(n) - ARC_RADIUS
        IN  \* move, lead, arc, vertical part, arc
            /\ Len(commands(back)) = 5
            /\ commands(back)[2][1] = "h"
            /\ commands(back)[2][2] >= 0
            /\ commands(back)[4][1] = "v"
            /\ commands(back)[4][2] <= 0
            /\ marks(back)[3][1] = rising
            /\ marks(back)[4][1] = rising
            /\ \A i \in 1..(len - 1) :
                  LET falling == out[1].x + Stack_left_padding(n)
                                 + width(n.children[i]) + ARC_RADIUS
                  IN  \* move, arc, vertical part
                      /\ commands(e.children[2 * i])[3][1] = "v"
                      /\ marks(e.children[2 * i])[2][1] = falling
                      /\ marks(e.children[2 * i])[3][1] = falling
                      /\ falling < rising

\* a Stack has been drawn whose first child is exactly as wide as its last
StackReturnConnectorWitness ==
    /\ drew
    /\ drawn_node.kind = "Stack"
    /\ Len(drawn_node.children) >= 2
    /\ width(drawn_node.children[1])
          = width(drawn_node.children[Len(drawn_node.children)])
    /\ width(drawn_node.children[1]) >= 0
    /\ commands(out[1].element.children[2 * Len(drawn_node.children)])[4][2] < 0

\* C27: Optional drawing (child with 0 <= entry <= height, width >= 0).
\* The child is drawn at (x + 2R, y + entry_height - child.entry) so its
\* entry line coincides with the Optional's entry line; the bypass path
\* leaves (x, y + entry_height), its straight run of length child.width
\* lies on y (the Optional's top edge) from x + 2R to x + 2R + child.width,
\* at least R above the child's top edge, and the bypass rejoins the entry
\* line exactly at (x + width, y + entry_height).
OptionalDrawing ==
    (IF drew
     THEN drawn_node.kind = "Optional" /\ plain_children(drawn_node)
     ELSE FALSE) =>
        LET n == drawn_node
            inner == n.children[1]
            e == out[1].element
            x == out[1].x
            y == out[1].y
            R == ARC_RADIUS
            line == y + entry_height(n)
            top_inner == line - entry_height(inner)
            bypass == e.children[1]
        IN  /\ e.children[2] = draw(inner, x + 2 * R, top_inner, out[1].h_dir)
            /\ top_inner + entry_height(inner) = line
            /\ marks(bypass)[1] = <<x, line>>
            \* the straight run
            /\ commands(bypass)[7] = <<"h", width(inner)>>
            /\ marks(bypass)[6] = <<x + 2 * R, y>>
            /\ marks(bypass)[7] = <<x + 2 * R + width(inner), y>>
            /\ y + R <= top_inner
            \* the last arc
            /\ commands(bypass)[10][1] = "a"
            /\ marks(bypass)[10] = <<x + width(n), line>>
            /\ \A k \in 11..Len(marks(bypass)) : marks(bypass)[k][2] = line

\* an Optional has been drawn over a child whose entry line is more than R
\* below its top, and over which the bypass has to rise further
OptionalDrawingWitness ==
    /\ drew
    /\ drawn_node.kind = "Optional"
    /\ plain_children(drawn_node)
    /\ entry_height(drawn_node.children[1]) > ARC_RADIUS
    /\ commands(out[1].element.children[1])[5][2] < 0
    /\ out[1].x # 0

\* C28: Repeat drawing (children with 0 <= entry <= height, width >= 0).
\* inner is drawn at (x + R, y); the forward line reaches
\* (x + width, y + entry_height); the loop path descends from the right end
\* by heightBetweenEntries, runs backward on the line
\* y + entry_height + heightBetweenEntries and rises back to
\* (x + R, y + entry_height), i.e. it is a closed loop whose two vertical
\* runs have non-negative length; the repeat child is drawn right-aligned at
\* x + width - R - repeat.width with its bottom on the Repeat's bottom edge
\* and its entry line exactly on the loop's bottom line.
RepeatDrawing ==
    (IF drew
     THEN drawn_node.kind = "Repeat" /\ plain_children(drawn_node)
     ELSE FALSE) =>
        LET n == drawn_node
            inner == n.children[1]
            repeat == n.children[2]
            e == out[1].element
            x == out[1].x
            y == out[1].y
            R == ARC_RADIUS
            line == y + entry_height(n)
            bottom_line == line + Repeat_height_between_entries(n)
            loop == marks(e.children[1])
            cmds == commands(e.children[1])
            top_repeat == y + height(n) - height(repeat)
        IN  /\ e.children[3] = draw(inner, x + R, y, out[1].h_dir)
            /\ y + entry_height(inner) = line
            \* the forward line
            /\ loop[1] = <<x, line>>
            /\ loop[4] = <<x + width(n), line>>
            \* down from the right end
            /\ loop[5] = <<x + width(n) - R, line>>
            /\ cmds[7][1] = "v"
            /\ cmds[7][2] >= 0
            /\ loop[8] = <<x + width(n) - R, bottom_line>>
            \* backward
            /\ loop[9][2] = bottom_line
            /\ cmds[10][1] = "h"
            /\ cmds[10][2] <= 0
            /\ loop[10] = <<x + R, bottom_line>>
            \* and up again
            /\ cmds[12][1] = "v"
            /\ cmds[12][2] <= 0
            /\ loop[13] = <<x + R, line>>
            /\ Len(loop) = 13
            \* the repeat child
            /\ e.children[2] =
                  draw(repeat, x + width(n) - R - width(repeat), top_repeat,
                       opposite(out[1].h_dir))
            /\ top_repeat + height(repeat) = y + height(n)
            /\ top_repeat + entry_height(repeat) = bottom_line

\* a loop has been drawn whose inner node is wider than its repeat child
\* and whose bottom line lies more than 2R below its entry line
RepeatDrawingWitness ==
    /\ drew
    /\ drawn_node.kind = "Repeat"
    /\ plain_children(drawn_node)
    /\ width(drawn_node.children[1]) > width(drawn_node.children[2])
    /\ width(drawn_node.children[2]) > 0
    /\ commands(out[1].element.children[1])[7][2] > 0
    /\ commands(out[1].element.children[1])[10][2] < 0

\* the y at which the row of the alternative c >= 2 of the Choice n starts
Choice_row(n, y, c) ==
    Choice_first_running_y(n, y)
    + sum_upto([j \in 1..Len(n.children) |->
                   IF j = 1 THEN 0 ELSE Choice_padded_height(n.children[j])],
               c - 1)

\* the origin at which n, drawn at (x, y), draws its i-th child
origin_of(n, i, x, y) ==
    LET c == n.children[i]
        R == ARC_RADIUS
    IN  CASE n.kind = "Sequence" ->
               <<x + sum_upto([j \in DOMAIN n.children |->
                                  width(n.children[j]) + Sequence_spacing],
                              i - 1),
                 y + entry_height(n) - entry_height(c)>>
          [] n.kind = "VerticalGrid" ->
               <<x, y + sum_upto([j \in DOMAIN n.children |->
                                     height(n.children[j])
                                     + VerticalGrid_spacing], i - 1)>>
          [] n.kind = "HorizontalGrid" ->
               <<x + sum_upto([j \in DOMAIN n.children |->
                                  width(n.children[j])
                                  + HorizontalGrid_spacing], i - 1), y>>
          [] n.kind = "Choice" ->
               IF i = 1 THEN <<x + Choice_inner_padding(n), y>>
               ELSE <<x + 2 * R,
                      Choice_row(n, y, i) + max2(0, R - entry_height(c))>>
          [] n.kind = "Stack" -> <<x + Stack_left_padding(n), Stack_top(n, y, i)>>
          [] n.kind = "Optional" ->
               <<x + 2 * R, y + entry_height(n) - entry_height(c)>>
          [] n.kind = "Repeat" ->
               IF i = 1 THEN <<x + R, y>>
               ELSE <<x + width(n) - R - width(c), y + height(n) - height(c)>>
          [] n.kind = "LabeledBox" ->
               IF i = 1
               THEN <<x + LabeledBox_padding(n),
                      y + LabeledBox_padding(n) + height(n.children[2])
                        + LabeledBox_spacing(n)>>
               ELSE <<x + LabeledBox_padding(n), y + LabeledBox_padding(n)>>
          [] n.kind = "Link" -> <<x, y>>
          [] n.kind = "Diagram" ->
               <<x + Diagram_left_padding, y + Diagram_top_padding>>

\* the direction in which n, drawn in the direction d, draws its i-th child
direction_of(n, i, d) ==
    IF n.kind = "Repeat" /\ i = 2 THEN opposite(d) ELSE d

RECURSIVE boxed(_, _, _, _, _)
\* e being the drawing of n at (x, y) in the direction d: every child of n
\* is drawn at its origin and, the children of n being plain, its rectangle
\* lies in the rectangle of n; and so on down
boxed(n, e, x, y, d) ==
    \A i \in DOMAIN n.children :
        LET c == n.children[i]
            o == origin_of(n, i, x, y)
            part == e.children[part_of(n, i)]
        IN  /\ part = draw(c, o[1], o[2], direction_of(n, i, d))
            /\ plain_children(n) =>
                  /\ x <= o[1]
                  /\ o[1] + width(c) <= x + width(n)
                  /\ y <= o[2]
                  /\ o[2] + height(c) <= y + height(n)
            /\ boxed(c, part, o[1], o[2], direction_of(n, i, d))

\* C29: child boxes stay inside the parent box.  For every combinator
\* (Sequence, Choice, Stack, Optional, Repeat, LabeledBox, VerticalGrid,
\* HorizontalGrid, Link, Diagram) whose children satisfy width >= 0 and
\* 0 <= entry_height <= height, each child is drawn at an origin (cx, cy)
\* such that the child's rectangle [cx, cx + child.width] x
\* [cy, cy + child.height] is contained in the parent's rectangle
\* [x, x + width] x [y, y + height]; this holds for every descendant at any
\* nesting depth.
ChildBoxes ==
    drew => boxed(drawn_node, out[1].element, out[1].x, out[1].y,
                  out[1].h_dir)

\* a loop has been drawn whose repeat child is more than R wider than its
\* inner node
ChildBoxesWitness ==
    /\ drew
    /\ drawn_node.kind = "Repeat"
    /\ plain_children(drawn_node)
    /\ width(drawn_node.children[2])
          > width(drawn_node.children[1]) + ARC_RADIUS
    /\ boxed(drawn_node, out[1].element, out[1].x, out[1].y, out[1].h_dir)

\* the node types whose children C30 speaks of
SiblingKinds ==
    {"Sequence", "Choice", "Stack", "Repeat", "LabeledBox", "VerticalGrid",
     "HorizontalGrid"}

====
